---- MODULE Spec2Model ----
(***************************************************************************)
(* Model of the Threadweaver decision engine: api/engine/scoring.py        *)
(* (trigger filter, urgency scoring, seeded weighted selection) and        *)
(* api/engine/simulate.py (delta application, autopilot evaluation, the    *)
(* simulation loop).                                                       *)
(*                                                                         *)
(* Numbers.  The metrics are Python floats; the model takes the base       *)
(* dimensions and the deltas to be integers and keeps every derived real   *)
(* in exact fixed point:                                                   *)
(*   sustainabilityScore  in hundredths   (43.5   is 4350)                 *)
(*   card scores          in twentieths   (17.5   is 350)                  *)
(* so the weights 0.25, 0.15, 0.20, the urgency factor 30/100 and the      *)
(* severity multipliers 1.0, 1.5, 2.0 are all exact.                       *)
(* Float arithmetic rounds: an objective of evaluate_option is its exact   *)
(* value plus a rounding error, far smaller than the difference of two     *)
(* different exact values, which is a function of the operands that the    *)
(* model does not compute.  It can decide a comparison only between        *)
(* objectives whose exact values are equal; select_best_option is given    *)
(* the errors (in ulps) of the objectives it compares, which are 0 where   *)
(* no two exact values are equal.                                          *)
(*                                                                         *)
(* Optional values (seed: Optional[int]) are sequences of length <= 1:     *)
(* << >> is None and <<n>> is the integer n.                               *)
(*                                                                         *)
(* Objects.  Python passes dicts and lists by reference.  Where a function *)
(* copies or writes an argument, the objects are kept in a store, a        *)
(* sequence of object contents, and a reference is an index into it; a     *)
(* write through a reference changes the store at that index, whoever      *)
(* else holds the reference.                                               *)
(***************************************************************************)
EXTENDS Integers, Sequences, FiniteSets, TLC

VARIABLES
    catalog,          \* cards.py: the list cached by load_all_cards()
    mt,               \* random.Random: first output of the generator, per seed
    \* one call of apply_deltas
    ad_pc, ad_metrics, ad_deltas, ad_result, ad_heap,
    \* one call of filter_by_triggers
    ft_pc, ft_metrics, ft_cards, ft_result,
    \* two calls of select_card with the same arguments
    sel_pc, sel_metrics, sel_used, sel_seed, sel_res,
    \* one call of simulate_full_run, or two with the same arguments
    initial_metrics, steps, start_step, in_used_card_ids, seed,
    pc, i, current_metrics, used_card_ids, nodes, heap,
    \* one call of simulate_step or of the apply-decision handler
    st_pc, st_op, st_metrics, st_card_id, st_option_id, st_result,
    \* one call of score_card
    sc_pc, sc_card, sc_metrics, sc_result,
    \* two concurrent invocations, and the same two again one after the other
    cc_op, cc_seed, cc_steps, cc_pc, cc_i, cc_metrics, cc_used, cc_out, rng,
    \* two calls of evaluate_option or of select_best_option
    ev_pc, ev_op, ev_n, ev_card, ev_metrics, ev_result,
    \* one call of validate_card_with_gemini, and its caller's reads
    ai_pc, ai_model, ai_max_retries, ai_attempt, ai_generated, ai_result,
    ai_read,
    \* a call of simulate_full_run, and the same run in two parts
    rs_args, rs_pc, rs_i, rs_metrics, rs_used, rs_out

applyVars  == <<ad_pc, ad_metrics, ad_deltas, ad_result, ad_heap>>
filterVars == <<ft_pc, ft_metrics, ft_cards, ft_result>>
selectVars == <<sel_pc, sel_metrics, sel_used, sel_seed, sel_res>>
simVars    == <<initial_metrics, steps, start_step, in_used_card_ids, seed,
                pc, i, current_metrics, used_card_ids, nodes, heap>>
stepVars   == <<st_pc, st_op, st_metrics, st_card_id, st_option_id, st_result>>
scoreVars  == <<sc_pc, sc_card, sc_metrics, sc_result>>
concVars   == <<cc_op, cc_seed, cc_steps, cc_pc, cc_i, cc_metrics, cc_used,
                cc_out, rng>>
evalVars   == <<ev_pc, ev_op, ev_n, ev_card, ev_metrics, ev_result>>
aiVars     == <<ai_pc, ai_model, ai_max_retries, ai_attempt, ai_generated,
                ai_result, ai_read>>
resVars    == <<rs_args, rs_pc, rs_i, rs_metrics, rs_used, rs_out>>
vars == <<catalog, mt, applyVars, filterVars, selectVars, simVars, stepVars,
          scoreVars, concVars, evalVars, aiVars, resVars>>

----------------------------------------------------------------------------
(* Helpers *)

Max(a, b) == IF a >= b THEN a ELSE b
Min(a, b) == IF a <= b THEN a ELSE b
Abs(n) == IF n < 0 THEN 0 - n ELSE n
Range(s) == {s[x] : x \in DOMAIN s}

NoSeed == << >>
Some(n) == <<n>>

\* The five base dimensions apply_deltas visits.
BaseKeys == {"waste", "emissions", "cost", "efficiency", "communityTrust"}

MetricsOf(w, e, c, f, t, s) ==
    [waste |-> w, emissions |-> e, cost |-> c, efficiency |-> f,
     communityTrust |-> t, sustainabilityScore |-> s]

----------------------------------------------------------------------------
(* simulate.py: the Delta Applicator *)

\* clamp() without its upper limit.
ClampNoUpper(value, min_val, max_val) == Max(min_val, value)

\* clamp(value, min_val, max_val)
Clamp(value, min_val, max_val) == Max(min_val, Min(max_val, value))

\* calculate_sustainability_score(metrics), in hundredths
CalculateSustainabilityScore(metrics) ==
    Clamp((100 - metrics["waste"]) * 25
          + (100 - metrics["emissions"]) * 25
          + (100 - metrics["cost"]) * 15
          + metrics["efficiency"] * 20
          + metrics["communityTrust"] * 15,
          0 * 100, 100 * 100)

\* apply_deltas() that keeps the score it was given.
ApplyDeltasStaleScore(metrics, deltas) ==
    [k \in DOMAIN metrics |->
        IF k \in BaseKeys /\ k \in DOMAIN deltas
        THEN Clamp(metrics[k] + deltas[k], 0, 100)
        ELSE metrics[k]]

\* apply_deltas(metrics, deltas): a new state, the input is left alone
ApplyDeltas(metrics, deltas) ==
    LET new_metrics == [k \in DOMAIN metrics |->
                           IF k \in BaseKeys /\ k \in DOMAIN deltas
                           THEN Clamp(metrics[k] + deltas[k], 0, 100)
                           ELSE metrics[k]]
    IN  [new_metrics EXCEPT
            !["sustainabilityScore"] = CalculateSustainabilityScore(new_metrics)]

\* copy.deepcopy(obj) that hands back obj itself.
DeepcopySame(objs, ref) == [objs |-> objs, ref |-> ref]

\* copy.deepcopy(obj): a new object with the contents of the object at ref
Deepcopy(objs, ref) ==
    [objs |-> Append(objs, objs[ref]), ref |-> Len(objs) + 1]

\* apply_deltas(metrics, deltas) on the objects its arguments refer to:
\* the store after the call and the reference it returns.  All its writes
\* (new_metrics[key] = ..., new_metrics["sustainabilityScore"] = ...) go
\* through new_metrics; deltas is only read.
ApplyDeltasOn(objs, metrics, deltas) ==
    LET copy == Deepcopy(objs, metrics)
        new_metrics == copy.ref
    IN  [objs |-> [copy.objs EXCEPT ![new_metrics] =
                      ApplyDeltas(copy.objs[new_metrics], copy.objs[deltas])],
         ref  |-> new_metrics]

----------------------------------------------------------------------------
(* scoring.py: the Eligibility Filter *)

\* A card without trigger bounds ("triggers" absent, None or {}).
NoTriggers == [x \in {} |-> 0]

\* The ten bound checks of filter_by_triggers, trust_max tested with >=.
IsEligibleTrustMaxStrict(metrics, triggers) ==
    ~ \/ ("waste_min" \in DOMAIN triggers /\ metrics["waste"] < triggers["waste_min"])
      \/ ("waste_max" \in DOMAIN triggers /\ metrics["waste"] > triggers["waste_max"])
      \/ ("emissions_min" \in DOMAIN triggers /\ metrics["emissions"] < triggers["emissions_min"])
      \/ ("emissions_max" \in DOMAIN triggers /\ metrics["emissions"] > triggers["emissions_max"])
      \/ ("cost_min" \in DOMAIN triggers /\ metrics["cost"] < triggers["cost_min"])
      \/ ("cost_max" \in DOMAIN triggers /\ metrics["cost"] > triggers["cost_max"])
      \/ ("efficiency_min" \in DOMAIN triggers /\ metrics["efficiency"] < triggers["efficiency_min"])
      \/ ("efficiency_max" \in DOMAIN triggers /\ metrics["efficiency"] > triggers["efficiency_max"])
      \/ ("trust_min" \in DOMAIN triggers /\ metrics["communityTrust"] < triggers["trust_min"])
      \/ ("trust_max" \in DOMAIN triggers /\ metrics["communityTrust"] >= triggers["trust_max"])

\* The flag is_eligible after the ten bound checks of filter_by_triggers.
IsEligible(metrics, triggers) ==
    ~ \/ ("waste_min" \in DOMAIN triggers /\ metrics["waste"] < triggers["waste_min"])
      \/ ("waste_max" \in DOMAIN triggers /\ metrics["waste"] > triggers["waste_max"])
      \/ ("emissions_min" \in DOMAIN triggers /\ metrics["emissions"] < triggers["emissions_min"])
      \/ ("emissions_max" \in DOMAIN triggers /\ metrics["emissions"] > triggers["emissions_max"])
      \/ ("cost_min" \in DOMAIN triggers /\ metrics["cost"] < triggers["cost_min"])
      \/ ("cost_max" \in DOMAIN triggers /\ metrics["cost"] > triggers["cost_max"])
      \/ ("efficiency_min" \in DOMAIN triggers /\ metrics["efficiency"] < triggers["efficiency_min"])
      \/ ("efficiency_max" \in DOMAIN triggers /\ metrics["efficiency"] > triggers["efficiency_max"])
      \/ ("trust_min" \in DOMAIN triggers /\ metrics["communityTrust"] < triggers["trust_min"])
      \/ ("trust_max" \in DOMAIN triggers /\ metrics["communityTrust"] > triggers["trust_max"])

\* filter_by_triggers(metrics, cards)
FilterByTriggers(metrics, cards) ==
    SelectSeq(cards, LAMBDA card :
        \/ DOMAIN card.triggers = {}          \* "if not triggers"
        \/ IsEligible(metrics, card.triggers))

----------------------------------------------------------------------------
(* scoring.py: the Urgency & Scoring Engine *)

\* calculate_urgency_score with the efficiency term the wrong way round.
CalculateUrgencyScoreSigned(metrics) ==
    [waste      |-> metrics["waste"],
     emissions  |-> metrics["emissions"],
     cost       |-> metrics["cost"],
     efficiency |-> metrics["efficiency"] - 100,
     trust      |-> 100 - metrics["communityTrust"]]

\* calculate_urgency_score(metrics), in percent (0.6 is 60)
CalculateUrgencyScore(metrics) ==
    [waste      |-> metrics["waste"],
     emissions  |-> metrics["emissions"],
     cost       |-> metrics["cost"],
     efficiency |-> 100 - metrics["efficiency"],
     trust      |-> 100 - metrics["communityTrust"]]

\* severity_weights with hard weighted like medium.
SeverityWeightHardAsMedium(severity) ==
    CASE severity = "easy"   -> 2
      [] severity = "medium" -> 3
      [] severity = "hard"   -> 3
      [] OTHER               -> 2

\* severity_weights.get(severity, 1.0), in halves
SeverityWeight(severity) ==
    CASE severity = "easy"   -> 2
      [] severity = "medium" -> 3
      [] severity = "hard"   -> 4
      [] OTHER               -> 2

\* tag_boost of score_card: the sum of urgency[tag] * 30 over the card's tags
\* that have an urgency entry, in twentieths (0.3 * percent * 20)
RECURSIVE TagBoost(_, _)
TagBoost(card_tags, urgency) ==
    IF card_tags = << >> THEN 0
    ELSE (IF Head(card_tags) \in DOMAIN urgency
          THEN urgency[Head(card_tags)] * 6 ELSE 0)
         + TagBoost(Tail(card_tags), urgency)

\* The "High <tag> urgency" factors of score_card, in tag order.
RECURSIVE UrgencyFactors(_, _, _)
UrgencyFactors(card_tags, metrics, urgency) ==
    IF card_tags = << >> THEN << >>
    ELSE LET tag == Head(card_tags)
             rest == UrgencyFactors(Tail(card_tags), metrics, urgency)
         IN  IF tag \in DOMAIN urgency /\ urgency[tag] > 60
             THEN << [factor |-> <<"High urgency", tag>>,
                      score  |-> urgency[tag] * 6,
                      \* metrics.get(tag, 0)
                      reason |-> <<tag, IF tag \in DOMAIN metrics
                                        THEN metrics[tag] ELSE 0>>] >> \o rest
             ELSE rest

\* score_card that adds the low-sustainability 15 before it multiplies.
ScoreCardBonusFirst(card, metrics, urgency) ==
    LET low == metrics["sustainabilityScore"] < 40 * 100
        boosted == 10 * 20 + TagBoost(card.tags, urgency)
                   + (IF low THEN 15 * 20 ELSE 0)
    IN  [score   |-> (boosted * SeverityWeight(card.severity)) \div 2,
         factors |-> UrgencyFactors(card.tags, metrics, urgency)]

\* score_card(card, metrics, urgency): score and factor scores in twentieths
ScoreCard(card, metrics, urgency) ==
    LET boosted == 10 * 20 + TagBoost(card.tags, urgency)
        multiplied == (boosted * SeverityWeight(card.severity)) \div 2
        hard == IF card.severity = "hard"
                THEN << [factor |-> <<"High-impact decision", "">>,
                         score  |-> ((SeverityWeight(card.severity) - 2) * multiplied) \div 2,
                         reason |-> <<card.severity, 0>>] >>
                ELSE << >>
        low == metrics["sustainabilityScore"] < 40 * 100
    IN  [score   |-> IF low THEN multiplied + 15 * 20 ELSE multiplied,
         factors |-> UrgencyFactors(card.tags, metrics, urgency) \o hard
                     \o (IF low
                         THEN << [factor |-> <<"Low sustainability score", "">>,
                                  score  |-> 15 * 20,
                                  reason |-> <<"sustainability",
                                               metrics["sustainabilityScore"]>>] >>
                         ELSE << >>)]

----------------------------------------------------------------------------
(* scoring.py: the Selector *)

\* The card select_card returns when it returns none.
NoCard == [id |-> "", tags |-> << >>, severity |-> "", triggers |-> NoTriggers,
           options |-> << >>]

\* Step 2 of select_card that never falls back to the full catalog.
AvailableCardsNoReuse(all_cards, used) ==
    SelectSeq(all_cards, LAMBDA card : card.id \notin Range(used))

\* Step 2 of select_card that does not remove the used cards.
AvailableCardsKeepUsed(all_cards, used) == all_cards

\* Step 2 of select_card: the unused cards, or all cards when none is left
AvailableCards(all_cards, used) ==
    LET available_cards ==
            SelectSeq(all_cards, LAMBDA card : card.id \notin Range(used))
    IN  IF available_cards = << >> THEN all_cards ELSE available_cards

\* Step 3 of select_card that does not filter by triggers.
EligibleCardsNoFilter(metrics, available_cards) == available_cards

\* Step 3 of select_card: the cards whose triggers hold, or all available
\* cards when none does
EligibleCards(metrics, available_cards) ==
    LET eligible_cards == FilterByTriggers(metrics, available_cards)
    IN  IF eligible_cards = << >> THEN available_cards ELSE eligible_cards

\* Step 4 of select_card: every eligible card with its score and factors
ScoredCards(metrics, eligible_cards) ==
    LET urgency == CalculateUrgencyScore(metrics)
    IN  [n \in 1..Len(eligible_cards) |->
            LET sc == ScoreCard(eligible_cards[n], metrics, urgency)
            IN  [card |-> eligible_cards[n], score |-> sc.score,
                 factors |-> sc.factors]]

\* A sort that puts x before the entries of equal score.
RECURSIVE InsertDescUnstable(_, _)
InsertDescUnstable(sorted, x) ==
    IF sorted = << >> THEN <<x>>
    ELSE IF Head(sorted).score > x.score
         THEN <<Head(sorted)>> \o InsertDescUnstable(Tail(sorted), x)
         ELSE <<x>> \o sorted

\* list.sort(key=score, reverse=True): stable, so equal scores keep their
\* order.  Insert x after every entry whose score is >= x's.
RECURSIVE InsertDesc(_, _)
InsertDesc(sorted, x) ==
    IF sorted = << >> THEN <<x>>
    ELSE IF Head(sorted).score >= x.score
         THEN <<Head(sorted)>> \o InsertDesc(Tail(sorted), x)
         ELSE <<x>> \o sorted

RECURSIVE SortDesc(_)
SortDesc(scored) ==
    IF scored = << >> THEN << >>
    ELSE InsertDesc(SortDesc(SubSeq(scored, 1, Len(scored) - 1)),
                    scored[Len(scored)])

\* itertools.accumulate(weights)
RECURSIVE Accumulate(_)
Accumulate(weights) ==
    IF weights = << >> THEN << >>
    ELSE LET front == Accumulate(SubSeq(weights, 1, Len(weights) - 1))
         IN  Append(front, (IF front = << >> THEN 0 ELSE front[Len(front)])
                           + weights[Len(weights)])

\* bisect.bisect_right(a, x, lo, hi) with 0-based lo, hi; x is the fraction
\* num/den, compared exactly
RECURSIVE Bisect(_, _, _, _, _)
Bisect(a, num, den, lo, hi) ==
    IF lo < hi
    THEN LET mid == (lo + hi) \div 2
         IN  IF num < a[mid + 1] * den
             THEN Bisect(a, num, den, lo, mid)
             ELSE Bisect(a, num, den, mid + 1, hi)
    ELSE lo

\* Outputs of random(): draw/RandSteps for draw in 0..RandSteps-1.
RandSteps == 4

\* rng.choices(population, weights=weights, k=1)[0] as an index into the
\* population, or the exception it raises; draw/RandSteps is random()
Choices(population, weights, draw) ==
    LET n == Len(population)
        cum_weights == Accumulate(weights)
    IN  IF cum_weights = << >>
        THEN [status |-> "IndexError", index |-> 0]     \* cum_weights[-1]
        ELSE IF cum_weights[n] <= 0
        THEN [status |-> "ValueError", index |-> 0]     \* total <= 0.0
        ELSE [status |-> "ok",
              index  |-> 1 + Bisect(cum_weights, draw * cum_weights[n],
                                    RandSteps, 0, n - 1)]

\* The list object the names available_cards and eligible_cards of
\* select_card are bound to: a list of their own, or, after a fallback, the
\* list all_cards, which is the one load_all_cards() caches.
AvailableCardsObject(all_cards, used) ==
    IF SelectSeq(all_cards, LAMBDA card : card.id \notin Range(used)) = << >>
    THEN "all_cards" ELSE "available_cards"

EligibleCardsObject(all_cards, metrics, used) ==
    IF FilterByTriggers(metrics, AvailableCards(all_cards, used)) = << >>
    THEN AvailableCardsObject(all_cards, used) ELSE "eligible_cards"

\* select_card that sorts eligible_cards in place.
SortedInPlaceEligible(all_cards, metrics, used) ==
    EligibleCardsObject(all_cards, metrics, used)

\* The list object select_card sorts in place: scored_cards, the list it
\* builds itself
SortedInPlace(all_cards, metrics, used) == "scored_cards"

\* The list load_all_cards() caches, after a call of select_card
CatalogAfterSelect(all_cards, metrics, used) ==
    IF SortedInPlace(all_cards, metrics, used) = "all_cards"
    THEN LET sorted == SortDesc(ScoredCards(metrics, all_cards))
         IN  [n \in DOMAIN sorted |-> sorted[n].card]
    ELSE all_cards

\* "seed is not None" read as the truth value of seed.
SeededTruthy(s) == s # NoSeed /\ s[1] # 0

\* select_card: "seed is not None" (Random(seed), else Random())
Seeded(s) == s # NoSeed

\* select_card(metrics, used_card_ids, seed) over the catalog all_cards, given
\* the first output of its generator
SelectCard(all_cards, metrics, used, draw) ==
    LET available_cards == AvailableCards(all_cards, used)
        eligible_cards == EligibleCards(metrics, available_cards)
        scored_cards == SortDesc(ScoredCards(metrics, eligible_cards))
        top_candidates == SubSeq(scored_cards, 1, Min(3, Len(scored_cards)))
        weights == [n \in 1..Len(top_candidates) |-> top_candidates[n].score]
        choice == Choices(top_candidates, weights, draw)
    IN  IF choice.status # "ok"
        THEN [status |-> choice.status, card |-> NoCard,
              rationale |-> [factors |-> << >>, severity |-> ""],
              details |-> [finalScore |-> 0, topFactors |-> << >>,
                           candidatesConsidered |-> 0, totalEligible |-> 0]]
        ELSE LET selected == top_candidates[choice.index]
                 top_factors == SubSeq(selected.factors, 1,
                                       Min(3, Len(selected.factors)))
             IN  [status |-> "ok",
                  card |-> selected.card,
                  rationale |->
                      IF top_factors # << >>
                      THEN [factors |-> [n \in 1..Len(top_factors) |->
                                            <<top_factors[n].factor,
                                              top_factors[n].reason>>],
                            severity |-> ""]
                      ELSE [factors |-> << >>,
                            severity |-> selected.card.severity],
                  details |-> [finalScore |-> selected.score,
                               topFactors |-> top_factors,
                               candidatesConsidered |-> Len(top_candidates),
                               totalEligible |-> Len(eligible_cards)]]

----------------------------------------------------------------------------
(* ai_engine.py: AIDecisionEngine.validate_card_with_gemini *)

\* The keys enhance_card_selection reads from the record it is handed.
ValidationKeys == {"confidence", "reasoning", "priority_level"}

\* What one call of generate_content can come to, up to json.loads: an
\* exception of the service, text that is not JSON, or a JSON object with
\* some of the keys, its confidence a number (in percent) or, as << >>,
\* something float() cannot convert, its priority_level one of those the
\* prompt asks for.
PriorityLevels == {"critical", "high", "medium", "low"}

ServiceOutcomes ==
    { [kind |-> k, keys |-> {}, confidence |-> << >>, priority_level |-> "low"] :
        k \in {"exception", "unparsable"} }
    \cup { [kind |-> "json", keys |-> keys, confidence |-> c,
            priority_level |-> p] :
             keys \in SUBSET ValidationKeys,
             c \in {<< >>, <<-50>>, <<30>>, <<85>>, <<150>>},
             p \in PriorityLevels }

\* The records validate_card_with_gemini builds itself.
FallbackRecord(reasoning) ==
    [confidence |-> 50, reasoning |-> reasoning, priority_level |-> "medium"]

\* json.loads(text) with result['confidence'] clamped to 0..1: the keys
\* the service sent, and no others
ParsedRecord(outcome) ==
    [k \in outcome.keys |->
        IF k = "confidence" THEN Clamp(outcome.confidence[1], 0, 100)
        ELSE IF k = "reasoning" THEN "service reasoning"
        ELSE outcome.priority_level]

\* One iteration of the retry loop, attempt the 0-based index: the record
\* returned, or the way the iteration ends otherwise.  Whatever raises
\* inside the try (the service, json.loads, float()) is caught; on the last
\* attempt the handler returns the fallback.
ValidationAttempt(outcome, attempt, max_retries) ==
    LET raises == \/ outcome.kind \in {"exception", "unparsable"}
                  \/ /\ {"confidence", "reasoning"} \subseteq outcome.keys
                     /\ outcome.confidence = << >>
    IN  IF raises
        THEN IF attempt = max_retries - 1
             THEN [ends |-> "return",
                   result |-> FallbackRecord("Card addresses tags")]
             ELSE [ends |-> "continue", result |-> << >>]
        ELSE IF {"confidence", "reasoning"} \subseteq outcome.keys
        THEN [ends |-> "return", result |-> ParsedRecord(outcome)]
        ELSE [ends |-> "continue", result |-> << >>]

\* enhance_card_selection reading gemini_result['confidence'],
\* ['reasoning'] and ['priority_level']
EnhanceReads(gemini_result) ==
    IF ValidationKeys \subseteq DOMAIN gemini_result THEN "ok" ELSE "KeyError"

----------------------------------------------------------------------------
(* simulate.py: the Autopilot Evaluator *)

\* dict.get(key, default)
Get(d, key, default) == IF key \in DOMAIN d THEN d[key] ELSE default

\* f"{x:.1f}" of x given in hundredths: tenths, halves rounded to even
Round1(x) ==
    LET q == x \div 10
        r == x % 10
    IN  IF r > 5 \/ (r = 5 /\ q % 2 = 1) THEN q + 1 ELSE q

\* evaluate_option that penalises a cost delta of 10 already.
EvaluateOptionCostAtTen(option, metrics) ==
    LET deltas == option.deltas
        score_gain == ApplyDeltas(metrics, deltas)["sustainabilityScore"]
                      - metrics["sustainabilityScore"]
        cost_penalty == IF Get(deltas, "cost", 0) >= 10
                        THEN deltas["cost"] * (0 - 2) ELSE 0
        trust_penalty == IF Get(deltas, "communityTrust", 0) < 0 - 5
                         THEN deltas["communityTrust"] * 3 ELSE 0
    IN  [score |-> score_gain * 5 + cost_penalty * 100 + trust_penalty * 100
                   + Get(deltas, "efficiency", 0) * 150,
         explanation |-> [label |-> option.label, reasons |-> << >>]]

\* evaluate_option(option, metrics): the objective in hundredths and the
\* explanation as the option's label with its list of reasons
EvaluateOption(option, metrics) ==
    LET deltas == option.deltas
        projected_metrics == ApplyDeltas(metrics, deltas)
        score_gain == projected_metrics["sustainabilityScore"]
                      - metrics["sustainabilityScore"]
        cost_penalty == IF Get(deltas, "cost", 0) > 10
                        THEN deltas["cost"] * (0 - 2) ELSE 0
        trust_penalty == IF Get(deltas, "communityTrust", 0) < 0 - 5
                         THEN deltas["communityTrust"] * 3 ELSE 0
        efficiency_bonus150 == Get(deltas, "efficiency", 0) * 150
        Reason(cond, name, value) == IF cond THEN << <<name, value>> >> ELSE << >>
    IN  [score |-> score_gain * 5 + cost_penalty * 100 + trust_penalty * 100
                   + efficiency_bonus150,
         explanation |->
            [label |-> option.label,
             reasons |->
                Reason(score_gain > 0, "sustainability score", Round1(score_gain))
                \o Reason(Get(deltas, "waste", 0) < 0, "waste reduction",
                          Get(deltas, "waste", 0))
                \o Reason(Get(deltas, "emissions", 0) < 0, "emissions reduction",
                          Get(deltas, "emissions", 0))
                \o Reason(Get(deltas, "efficiency", 0) > 0, "efficiency gain",
                          Get(deltas, "efficiency", 0))
                \o Reason(Get(deltas, "communityTrust", 0) > 0, "community trust",
                          Get(deltas, "communityTrust", 0))]]

\* The rounding error of an objective: the float is below its exact value,
\* equal to it, or above.
Ulps == {-1, 0, 1}

\* The float an exact objective (in hundredths) and its rounding error
\* stand for, as a sort key: the error decides between equal exact values.
FloatKey(exact, err) == exact * 4 + err

\* select_best_option that takes the last entry of the ascending sort.
SelectBestOptionRoundedLast(card, metrics, errors) ==
    LET evaluated == [n \in 1..Len(card.options) |->
                        LET ev == EvaluateOption(card.options[n], metrics)
                        IN  [option |-> card.options[n],
                             score |-> FloatKey(ev.score, errors[n]),
                             explanation |-> ev.explanation]]
        reversed == [n \in 1..Len(evaluated) |->
                        evaluated[Len(evaluated) + 1 - n]]
    IN  SortDesc(reversed)[1]

\* select_best_option(card, metrics), errors[n] the rounding error of the
\* objective of option n: the first entry of the options sorted by
\* descending objective (stable)
SelectBestOptionRounded(card, metrics, errors) ==
    LET evaluated == [n \in 1..Len(card.options) |->
                        LET ev == EvaluateOption(card.options[n], metrics)
                        IN  [option |-> card.options[n],
                             score |-> FloatKey(ev.score, errors[n]),
                             explanation |-> ev.explanation]]
    IN  SortDesc(evaluated)[1]

\* select_best_option(card, metrics) where no two exact objectives are
\* equal
SelectBestOption(card, metrics) ==
    SelectBestOptionRounded(card, metrics, [n \in 1..Len(card.options) |-> 0])

\* next((opt for opt in card["options"] if opt["id"] == option_id), None):
\* the first option with that identifier, or none
FindOption(card, option_id) ==
    LET found == SelectSeq(card.options, LAMBDA opt : opt.id = option_id)
    IN  IF found = << >> THEN << >> ELSE << found[1] >>

\* The truth value of an Optional[str]: None and "" are false.
Truthy(text) == text # << >> /\ text[1] # ""

\* simulate_step(metrics, card, chosen_option_id): the new metrics
\* and the explanation, or the ValueError of an option that is not found
SimulateStep(metrics, card, chosen_option_id) ==
    IF Truthy(chosen_option_id)
    THEN LET option == FindOption(card, chosen_option_id[1])
         IN  IF option = << >>
             THEN [status |-> "ValueError", new_metrics |-> << >>,
                   explanation |-> << >>, businessState |-> << >>]
             ELSE [status |-> "ok",
                   new_metrics |->
                       << ApplyDeltas(metrics, option[1].deltas) >>,
                   explanation |-> << [text |-> option[1].explanation] >>,
                   businessState |-> << >>]
    ELSE LET best == SelectBestOption(card, metrics)
         IN  [status |-> "ok",
              new_metrics |->
                  << ApplyDeltas(metrics, best.option.deltas) >>,
              explanation |-> << best.explanation >>,
              businessState |-> << >>]

----------------------------------------------------------------------------
(* main.py: the apply-decision handler *)

\* cards.get_card_by_id(card_id): the first card with that identifier, or
\* none
GetCardById(all_cards, card_id) ==
    LET found == SelectSeq(all_cards, LAMBDA card : card.id = card_id)
    IN  IF found = << >> THEN << >> ELSE << found[1] >>

\* generate_business_state_narrative(card, option, new_metrics): the
\* sentences of the narrative, each named by its subject and its band; the
\* sentence about the decision is inserted second
GenerateBusinessStateNarrative(card, option, new_metrics) ==
    LET Band(value, low, high) ==
            IF value <= low THEN "low" ELSE IF value >= high THEN "high" ELSE ""
        Sentence(subject, band) ==
            IF band = "" THEN << >> ELSE << <<subject, band>> >>
        score == new_metrics["sustainabilityScore"]
        overall == IF score >= 70 * 100 THEN "leader"
                   ELSE IF score >= 50 * 100 THEN "progress"
                   ELSE IF score >= 30 * 100 THEN "underway"
                   ELSE "challenges"
    IN  << <<"overall", overall>>, <<"decision", option.label>> >>
        \o Sentence("waste", Band(new_metrics["waste"], 30, 70))
        \o Sentence("emissions", Band(new_metrics["emissions"], 30, 70))
        \o Sentence("cost", Band(new_metrics["cost"], 30, 70))
        \o Sentence("efficiency", Band(new_metrics["efficiency"], 30, 70))
        \o Sentence("trust", Band(new_metrics["communityTrust"], 30, 70))

\* apply_decision(request): the response, or the HTTP 404 of a card or an
\* option that is not found
ApplyDecision(all_cards, card_id, option_id, currentMetrics) ==
    LET card == GetCardById(all_cards, card_id)
        option == FindOption(card[1], option_id)
        Failed(status) ==
            [status |-> status, new_metrics |-> << >>, explanation |-> << >>,
             businessState |-> << >>]
    IN  IF card = << >> THEN Failed("404 card")
        ELSE IF option = << >> THEN Failed("404 option")
        ELSE LET new_metrics == ApplyDeltas(currentMetrics, option[1].deltas)
             IN  [status |-> "ok",
                  new_metrics |-> << new_metrics >>,
                  explanation |-> << [text |-> option[1].explanation] >>,
                  businessState |->
                      GenerateBusinessStateNarrative(card[1], option[1],
                                                     new_metrics)]

----------------------------------------------------------------------------
(* Inputs of the apply_deltas calls *)

\* Base values a MetricsState may hold (schemas/models.py: ge=0, le=100).
ApplyBaseStates ==
    { <<0, 0, 0, 100, 100>>, <<100, 100, 100, 0, 0>>, <<95, 50, 40, 50, 30>>,
      <<5, 60, 92, 98, 3>> }

\* The score the caller sends along: any value in [0,100], stale or not.
ApplyStaleScores == {0, 4350, 10000}

ApplyMetrics ==
    { MetricsOf(b[1], b[2], b[3], b[4], b[5], s) :
        b \in ApplyBaseStates, s \in ApplyStaleScores }

DeltaAmounts == {-150, -20, 20, 150}

\* Every deltas map: any subset of the base dimensions, any of the amounts.
ApplyDeltasMaps == UNION { [S -> DeltaAmounts] : S \in SUBSET BaseKeys }

----------------------------------------------------------------------------
(* Inputs of the filter_by_triggers calls *)

Card(id, tags, severity, triggers, options) ==
    [id |-> id, tags |-> tags, severity |-> severity, triggers |-> triggers,
     options |-> options]

Option(id, deltas) ==
    [id |-> id, label |-> id, explanation |-> id, deltas |-> deltas]

\* The ten bounds of DecisionTriggers, each with the metric it is compared to.
TriggerKeys ==
    {"waste_min", "waste_max", "emissions_min", "emissions_max", "cost_min",
     "cost_max", "efficiency_min", "efficiency_max", "trust_min", "trust_max"}

\* Every metric is one below, at, or one above the bound the test cards use.
FilterBound == 40
FilterValues == {FilterBound - 1, FilterBound, FilterBound + 1}

FilterMetrics ==
    { MetricsOf(w, e, c, f, t, 5000) :
        w \in FilterValues, e \in FilterValues, c \in FilterValues,
        f \in FilterValues, t \in FilterValues }

\* Trigger maps: none, each single bound, both bounds of a dimension, and
\* the conjunction of two dimensions.
FilterTriggers ==
    {NoTriggers}
    \cup { [x \in {k} |-> FilterBound] : k \in TriggerKeys }
    \cup { [waste_min |-> FilterBound, trust_max |-> FilterBound],
           [waste_min |-> FilterBound, waste_max |-> FilterBound],
           [trust_min |-> FilterBound + 1, trust_max |-> FilterBound - 1],
           [emissions_max |-> FilterBound, cost_min |-> FilterBound,
            efficiency_max |-> FilterBound],
           [cost_max |-> 0], [efficiency_min |-> 0] }

FilterOptions == << Option("a", [waste |-> -5]), Option("b", [cost |-> 5]) >>

\* The card lists handed to the filter: two cards with any of the trigger
\* maps (the second with a fixed conjunction), and the empty list.
FilterCardLists ==
    { << Card("one", <<"waste">>, "easy", tr, FilterOptions),
         Card("two", <<"trust">>, "hard",
              [waste_min |-> FilterBound, trust_max |-> FilterBound],
              FilterOptions),
         Card("three", <<"policy">>, "medium", NoTriggers, FilterOptions) >> :
        tr \in FilterTriggers }
    \cup { << >> }

----------------------------------------------------------------------------
(* Inputs of the select_card and simulate_full_run calls *)

\* A two-card catalog: "A" scores higher than "B" in every metrics state.
PairCatalog ==
    << Card("A", <<"waste", "emissions">>, "hard", NoTriggers,
            << Option("a1", [waste |-> -20, emissions |-> -10, cost |-> 15,
                             efficiency |-> 0, communityTrust |-> 5]),
               Option("a2", [waste |-> -5, cost |-> 5]) >>),
       Card("B", <<"policy">>, "easy", NoTriggers,
            << Option("b1", [cost |-> 10, communityTrust |-> 10]),
               Option("b2", [efficiency |-> 10, communityTrust |-> -10]) >>) >>

\* A four-card catalog with trigger bounds on three of its cards.
LibraryCatalog ==
    << Card("waste-audit", <<"waste">>, "medium",
            [waste_min |-> 60, trust_max |-> 40],
            << Option("w1", [waste |-> -25, cost |-> 20]),
               Option("w2", [waste |-> -10, communityTrust |-> 5]) >>),
       Card("cost-review", <<"cost", "efficiency">>, "easy",
            [cost_max |-> 50],
            << Option("c1", [cost |-> -15, efficiency |-> 10]),
               Option("c2", [cost |-> -5, efficiency |-> 20,
                             communityTrust |-> -10]) >>),
       Card("town-hall", <<"trust">>, "hard", NoTriggers,
            << Option("t1", [cost |-> 12, communityTrust |-> 30]),
               Option("t2", [communityTrust |-> 10]) >>),
       Card("green-policy", <<"policy", "emissions">>, "medium",
            [efficiency_min |-> 80, emissions_max |-> 20],
            << Option("p1", [emissions |-> -20, efficiency |-> -5]),
               Option("p2", [emissions |-> -5]) >>) >>

\* A two-card catalog whose trigger bounds no metrics state of the calls
\* satisfies; the second card scores higher than the first.
GatedCatalog ==
    << Card("rationing", <<"policy">>, "easy", [waste_max |-> 10],
            << Option("r1", [waste |-> -10, communityTrust |-> -10]),
               Option("r2", [cost |-> 5, efficiency |-> 5]) >>),
       Card("charter", <<"waste", "trust">>, "hard", [trust_min |-> 90],
            << Option("h1", [communityTrust |-> 15, cost |-> 8]),
               Option("h2", [waste |-> -15, efficiency |-> -5]) >>) >>

Catalogs == { << >>, PairCatalog, LibraryCatalog, GatedCatalog }

\* A four-card catalog without triggers in which three cards score the
\* same, two of them at the end of the shortlist.
TieCatalog ==
    << Card("memo", <<"policy">>, "easy", NoTriggers, FilterOptions),
       Card("pledge", <<"policy">>, "medium", NoTriggers, FilterOptions),
       Card("notice", <<"policy">>, "easy", NoTriggers, FilterOptions),
       Card("poster", <<"policy">>, "easy", NoTriggers, FilterOptions) >>

SelectCatalogs == Catalogs \cup {TieCatalog}

\* Metrics states of the calls: a middling one, one with a score below 40,
\* and one that sits exactly on the trigger bounds of LibraryCatalog.
MidMetrics == MetricsOf(70, 50, 40, 50, 30, 4350)
LowMetrics == MetricsOf(90, 90, 80, 20, 20, 1500)
EdgeMetrics == MetricsOf(60, 20, 50, 80, 40, 5950)

CallMetrics == {MidMetrics, LowMetrics, EdgeMetrics}

\* select_card does not validate its metrics: a state with waste and
\* emissions below 0, where cards tagged with them score below 0.
OutOfRangeMetrics == MetricsOf(-100, -100, 40, 50, 30, 4350)

SelectMetrics == CallMetrics \cup {OutOfRangeMetrics}

BaseInRange(metrics) ==
    \A k \in {"waste", "emissions", "cost", "efficiency", "communityTrust"} :
        metrics[k] >= 0 /\ metrics[k] <= 100

Ids(cards) == [n \in 1..Len(cards) |-> cards[n].id]

\* The used-card histories of the select_card calls: every subset of the
\* catalog's identifiers, in catalog order, and one unknown identifier.
SelectUsedLists(cards) ==
    { SelectSeq(Ids(cards), LAMBDA id : id \in S) : S \in SUBSET Range(Ids(cards)) }
    \cup { <<"unknown">> }

\* The used-card histories of the simulation calls: none, the first card,
\* every card.
SimUsedLists(cards) ==
    { << >>, SubSeq(Ids(cards), 1, Min(1, Len(cards))), Ids(cards) }

\* Seeds: None and the integers -MaxSeed..MaxSeed.
MaxSeed == 1
Seeds == {NoSeed} \cup { Some(n) : n \in (0 - MaxSeed)..MaxSeed }

\* steps: 1..MaxSteps (the request schema allows 1..10); 1..MaxRepeatSteps
\* when the call is made twice.
MaxSteps == 3
MaxRepeatSteps == 2

\* start_step (the request schema allows 0..10).
StartSteps == {0, 1}

----------------------------------------------------------------------------
(* The values of the variables of calls that are not made *)

ZeroMetrics == MetricsOf(0, 0, 0, 0, 0, 0)
NoDeltas == [x \in {} |-> 0]
NoMemo == [x \in {} |-> 0]
Calls == {1, 2}

NoResult ==
    [status |-> "none", card |-> NoCard,
     rationale |-> [factors |-> << >>, severity |-> ""],
     details |-> [finalScore |-> 0, topFactors |-> << >>,
                  candidatesConsidered |-> 0, totalEligible |-> 0]]

ApplyIdle ==
    /\ ad_pc = "idle" /\ ad_metrics = ZeroMetrics
    /\ ad_deltas = NoDeltas /\ ad_result = ZeroMetrics /\ ad_heap = << >>

FilterIdle ==
    /\ ft_pc = "idle" /\ ft_metrics = ZeroMetrics
    /\ ft_cards = << >> /\ ft_result = << >>

SelectIdle ==
    /\ sel_pc = [r \in Calls |-> "idle"] /\ sel_metrics = ZeroMetrics
    /\ sel_used = << >> /\ sel_seed = NoSeed
    /\ sel_res = [r \in Calls |-> NoResult]

SimIdle ==
    /\ initial_metrics = ZeroMetrics /\ steps = 0 /\ start_step = 0
    /\ in_used_card_ids = << >> /\ seed = NoSeed
    /\ pc = [r \in Calls |-> "idle"] /\ i = [r \in Calls |-> 0]
    /\ current_metrics = [r \in Calls |-> 0]
    /\ used_card_ids = [r \in Calls |-> 0]
    /\ nodes = [r \in Calls |-> << >>]
    /\ heap = [r \in Calls |-> [dicts |-> << >>, lists |-> << >>]]

\* What a call that has not ended, or that raised, has produced.
NoOutcome ==
    [status |-> "none", new_metrics |-> << >>, explanation |-> << >>,
     businessState |-> << >>]

StepIdle ==
    /\ st_pc = "idle" /\ st_op = "" /\ st_metrics = ZeroMetrics
    /\ st_card_id = "" /\ st_option_id = << >> /\ st_result = NoOutcome

ScoreIdle ==
    /\ sc_pc = "idle" /\ sc_card = NoCard /\ sc_metrics = ZeroMetrics
    /\ sc_result = [score |-> 0, factors |-> << >>]

\* The catalog card with the given identifier.
CardOf(id) == CHOOSE card \in Range(catalog) : card.id = id

\* The invocations: 1 and 2 run concurrently; 3 repeats 1 and 4 repeats 2,
\* each alone.
Runs == 1..4
Invocations == 1..2
Invocation(c) == IF c <= 2 THEN c ELSE c - 2

\* The generator objects: one per run, and the module-level one (0).
Generators == 0..4
NoGenerator == [seed |-> NoSeed, pos |-> 0]

ConcIdle ==
    /\ cc_op = [a \in Invocations |-> ""]
    /\ cc_seed = [a \in Invocations |-> NoSeed]
    /\ cc_steps = 0
    /\ cc_pc = [c \in Runs |-> "idle"] /\ cc_i = [c \in Runs |-> 0]
    /\ cc_metrics = [c \in Runs |-> ZeroMetrics]
    /\ cc_used = [c \in Runs |-> << >>]
    /\ cc_out = [c \in Runs |-> << >>]
    /\ rng = [g \in Generators |-> NoGenerator]

\* The parts of the split run: the whole run, its first steps, the rest.
Parts == 1..3

NoEvaluation == [option |-> [id |-> "", label |-> "", explanation |-> "",
                             deltas |-> << >>],
                 score |-> 0, explanation |-> << >>, errors |-> << >>]

EvalIdle ==
    /\ ev_pc = [r \in Calls |-> "idle"] /\ ev_op = "" /\ ev_n = 0
    /\ ev_card = NoCard
    /\ ev_metrics = [r \in Calls |-> ZeroMetrics]
    /\ ev_result = [r \in Calls |-> NoEvaluation]

AiIdle ==
    /\ ai_pc = "idle" /\ ai_model = FALSE /\ ai_max_retries = 0
    /\ ai_attempt = 0 /\ ai_generated = 0 /\ ai_result = << >>
    /\ ai_read = ""

ResIdle ==
    /\ rs_args = << >>
    /\ rs_pc = [p \in Parts |-> "idle"] /\ rs_i = [p \in Parts |-> 0]
    /\ rs_metrics = [p \in Parts |-> ZeroMetrics]
    /\ rs_used = [p \in Parts |-> << >>]
    /\ rs_out = [p \in Parts |-> << >>]

----------------------------------------------------------------------------
(* random.Random *)

\* Random(seed) is a deterministic generator: its first output is a function
\* of abs(seed) alone.  The function is not computed; mt records, for every
\* seed some call has used, the output that seed gave, and every later
\* generator built from that seed repeats it.  Random() without a seed is
\* seeded from the operating system: any output.
RngOutputs(s) ==
    IF Seeded(s) /\ Abs(s[1]) \in DOMAIN mt
    THEN {mt[Abs(s[1])]}
    ELSE 0..(RandSteps - 1)

\* mt after a call whose generator was built from s and, when consumed,
\* gave draw
MemoAfter(s, draw, consumed) ==
    IF Seeded(s) /\ consumed /\ Abs(s[1]) \notin DOMAIN mt
    THEN (Abs(s[1]) :> draw) @@ mt
    ELSE mt

----------------------------------------------------------------------------
(* SpecSelect: two calls of select_card with the same arguments *)

InitSelect ==
    /\ catalog \in SelectCatalogs /\ mt = NoMemo
    /\ sel_pc = [r \in Calls |-> "call"]
    /\ sel_metrics \in SelectMetrics
    /\ sel_used \in SelectUsedLists(catalog)
    /\ sel_seed \in Seeds
    /\ sel_res = [r \in Calls |-> NoResult]
    /\ ApplyIdle /\ FilterIdle /\ SimIdle /\ StepIdle /\ ScoreIdle /\ ConcIdle
    /\ EvalIdle /\ AiIdle /\ ResIdle

\* select_card(sel_metrics, sel_used, sel_seed): returns its triple, or
\* raises what rng.choices raises
SelectCardCall(r) ==
    /\ sel_pc[r] = "call"
    /\ \E draw \in RngOutputs(sel_seed) :
       \E res \in {SelectCard(catalog, sel_metrics, sel_used, draw)} :
          /\ sel_res' = [sel_res EXCEPT ![r] = res]
          /\ sel_pc' = [sel_pc EXCEPT ![r] =
                           IF res.status = "ok" THEN "returned" ELSE "raised"]
          /\ mt' = MemoAfter(sel_seed, draw, res.status = "ok")
    /\ catalog' = CatalogAfterSelect(catalog, sel_metrics, sel_used)
    /\ UNCHANGED <<sel_metrics, sel_used, sel_seed, applyVars,
                   filterVars, simVars, stepVars, scoreVars, concVars,
                   evalVars, aiVars, resVars>>

NextSelect == \E r \in Calls : SelectCardCall(r)

SpecSelect == InitSelect /\ [][NextSelect]_vars

----------------------------------------------------------------------------
(* Spec: a call of simulate_full_run.  SpecRepeat: the same call twice. *)

SimInputs ==
    /\ catalog \in Catalogs /\ mt = NoMemo
    /\ initial_metrics \in CallMetrics
    /\ start_step \in StartSteps
    /\ in_used_card_ids \in SimUsedLists(catalog)
    /\ seed \in Seeds
    /\ i = [r \in Calls |-> 0]
    \* the objects of a call: at first the two the caller hands over
    /\ heap = [r \in Calls |-> [dicts |-> << initial_metrics >>,
                                 lists |-> << in_used_card_ids >>]]
    \* the local names are references into the call's objects, 0 when unbound
    /\ current_metrics = [r \in Calls |-> 0]
    /\ used_card_ids = [r \in Calls |-> 0]
    /\ nodes = [r \in Calls |-> << >>]
    /\ ApplyIdle /\ FilterIdle /\ SelectIdle /\ StepIdle /\ ScoreIdle /\ ConcIdle
    /\ EvalIdle /\ AiIdle /\ ResIdle

Init ==
    /\ SimInputs
    /\ steps \in 1..MaxSteps
    /\ pc = [r \in Calls |-> IF r = 1 THEN "call" ELSE "idle"]

InitRepeat ==
    /\ SimInputs
    /\ steps \in 1..MaxRepeatSteps
    /\ pc = [r \in Calls |-> "call"]

\* "seed + step if seed else None"
StepSeed(s, step) ==
    IF s # NoSeed /\ s[1] # 0 THEN Some(s[1] + step) ELSE NoSeed

\* "used_card_ids or []": the caller's list unless it is empty.
UsedOrEmpty(lists, ref) ==
    IF lists[ref] # << >>
    THEN [objs |-> lists, ref |-> ref]
    ELSE [objs |-> Append(lists, << >>), ref |-> Len(lists) + 1]

\* "used_card_ids.copy() if used_card_ids else []": a new list either way
UsedCopy(lists, ref) ==
    [objs |-> Append(lists, IF lists[ref] # << >> THEN lists[ref] ELSE << >>),
     ref  |-> Len(lists) + 1]

\* simulate_full_run up to its loop: the working copies
SimulateFullRunCall(r) ==
    /\ pc[r] = "call"
    /\ nodes' = [nodes EXCEPT ![r] = << >>]
    /\ \E metrics \in {Deepcopy(heap[r].dicts, 1)} :
       \E used \in {UsedCopy(heap[r].lists, 1)} :
          /\ heap' = [heap EXCEPT ![r] = [dicts |-> metrics.objs,
                                          lists |-> used.objs]]
          /\ current_metrics' = [current_metrics EXCEPT ![r] = metrics.ref]
          /\ used_card_ids' = [used_card_ids EXCEPT ![r] = used.ref]
    /\ i' = [i EXCEPT ![r] = 0]
    /\ pc' = [pc EXCEPT ![r] = IF 0 < steps THEN "loop" ELSE "returned"]
    /\ UNCHANGED <<catalog, mt, initial_metrics, steps, start_step,
                   in_used_card_ids, seed, applyVars, filterVars, selectVars,
                   stepVars, scoreVars, concVars,
                   evalVars, aiVars, resVars>>

\* The body of the loop that takes the first option of the card.
LoopBodyFirstOption(all_cards, metrics, used, step, draw) ==
    LET res == SelectCard(all_cards, metrics, used, draw)
    IN  IF res.status # "ok" \/ res.card = NoCard
        THEN [status |-> res.status, cardId |-> "", chosenOptionId |-> "",
              deltas |-> NoDeltas, explanation |-> << >>]
        ELSE [status |-> "ok", cardId |-> res.card.id,
              chosenOptionId |-> res.card.options[1].id,
              deltas |-> res.card.options[1].deltas,
              explanation |->
                  EvaluateOption(res.card.options[1], metrics).explanation]

\* The body of the loop of simulate_full_run for one step, up to the call
\* of apply_deltas: what select_card gave, and the best option of its card
LoopBody(all_cards, metrics, used, step, draw) ==
    LET res == SelectCard(all_cards, metrics, used, draw)
    IN  IF res.status # "ok" \/ res.card = NoCard
        THEN [status |-> res.status, cardId |-> "", chosenOptionId |-> "",
              deltas |-> NoDeltas, explanation |-> << >>]
        ELSE LET best == SelectBestOption(res.card, metrics)
             IN  [status |-> "ok", cardId |-> res.card.id,
                  chosenOptionId |-> best.option.id,
                  deltas |-> best.option.deltas,
                  explanation |-> best.explanation]

\* The catalog with the deltas object of one option holding new contents.
WithDeltas(cards, card_id, option_id, deltas) ==
    [n \in DOMAIN cards |->
        IF cards[n].id # card_id THEN cards[n]
        ELSE [cards[n] EXCEPT !.options =
                 [m \in DOMAIN cards[n].options |->
                     IF cards[n].options[m].id # option_id
                     THEN cards[n].options[m]
                     ELSE [cards[n].options[m] EXCEPT !.deltas = deltas]]]]

\* One iteration of the loop of simulate_full_run, and the return that
\* follows the last one.  An exception of select_card leaves the function;
\* a call of select_card that returns no card ends the loop ("break").
\* apply_deltas runs on the call's metrics objects and on the deltas object
\* of the chosen option, which belongs to the catalog: the store it is
\* handed holds that object first.
SimulateFullRunStep(r) ==
    /\ pc[r] = "loop"
    /\ \E draw \in RngOutputs(StepSeed(seed, start_step + i[r])) :
       \E metrics \in {heap[r].dicts[current_metrics[r]]} :
       \E used \in {heap[r].lists[used_card_ids[r]]} :
       \E body \in {LoopBody(catalog, metrics, used, start_step + i[r], draw)} :
       \E sorted \in {CatalogAfterSelect(catalog, metrics, used)} :
          /\ mt' = MemoAfter(StepSeed(seed, start_step + i[r]), draw,
                             body.status = "ok")
          /\ IF body.status # "ok"
             THEN /\ pc' = [pc EXCEPT ![r] = "raised"]
                  /\ catalog' = sorted
                  /\ UNCHANGED <<i, current_metrics, used_card_ids, nodes,
                                 heap>>
             ELSE IF body.cardId = ""
             THEN /\ pc' = [pc EXCEPT ![r] = "returned"]
                  /\ catalog' = sorted
                  /\ UNCHANGED <<i, current_metrics, used_card_ids, nodes,
                                 heap>>
             ELSE \E out \in {ApplyDeltasOn(<<body.deltas>> \o heap[r].dicts,
                                            current_metrics[r] + 1, 1)} :
                  /\ catalog' = WithDeltas(sorted, body.cardId,
                                           body.chosenOptionId, out.objs[1])
                  /\ nodes' = [nodes EXCEPT ![r] = Append(@,
                                  [step |-> start_step + i[r],
                                   cardId |-> body.cardId,
                                   chosenOptionId |-> body.chosenOptionId,
                                   metricsAfter |-> out.ref - 1,
                                   explanation |-> body.explanation])]
                  /\ heap' = [heap EXCEPT
                                 ![r].dicts = Tail(out.objs),
                                 ![r].lists[used_card_ids[r]] =
                                     Append(@, body.cardId)]
                  /\ current_metrics' =
                         [current_metrics EXCEPT ![r] = out.ref - 1]
                  /\ UNCHANGED used_card_ids
                  /\ i' = [i EXCEPT ![r] = @ + 1]
                  /\ pc' = [pc EXCEPT ![r] =
                               IF i[r] + 1 < steps THEN "loop" ELSE "returned"]
    /\ UNCHANGED <<initial_metrics, steps, start_step,
                   in_used_card_ids, seed, applyVars, filterVars, selectVars,
                   stepVars, scoreVars, concVars,
                   evalVars, aiVars, resVars>>

\* The nodes call r returns: each with the contents of its metricsAfter.
Timeline(r) ==
    [k \in DOMAIN nodes[r] |->
        [nodes[r][k] EXCEPT !.metricsAfter = heap[r].dicts[@]]]

Next == \E r \in Calls : SimulateFullRunCall(r) \/ SimulateFullRunStep(r)

Spec == Init /\ [][Next]_vars

SpecRepeat == InitRepeat /\ [][Next]_vars

\* The control of call r moves on: it enters the loop, or the loop does its
\* next iteration, returns or raises.  Every step of call r is such a step.
Advance(r) ==
    /\ pc[r] \in {"call", "loop"}
    /\ pc' \in {[pc EXCEPT ![r] = v] : v \in {"loop", "returned", "raised"}}
    /\ i' \in {[i EXCEPT ![r] = v] : v \in {i[r], i[r] + 1}}
    /\ <<pc'[r], i'[r]>> # <<pc[r], i[r]>>

\* A call that has been started keeps running: the function is synchronous
\* and nothing in it blocks or waits.
FairSpec == Spec /\ WF_<<pc, i>>(Advance(1))

----------------------------------------------------------------------------
(* SpecConcurrent: two invocations of select_card or simulate_full_run,    *)
(* with a seed each, run concurrently; then each is run again alone.  A    *)
(* call of select_card takes two steps: it builds its generator, and it    *)
(* draws from it and does the rest.                                        *)

\* simulate_full_run(..., start_step: int = 1, ...)
DefaultStartStep == 1

\* steps of the simulate_full_run invocations: 1..MaxConcSteps.
MaxConcSteps == 2

\* A generator every call shares.
RngShared(c) == 0

\* The generator object the name rng of the select_card call of run c is
\* bound to: a local of that call
RngOf(c) == c

\* The seed argument of the select_card call run c is at.
SelectSeed(c) ==
    IF cc_op[Invocation(c)] = "select_card"
    THEN cc_seed[Invocation(c)]
    ELSE StepSeed(cc_seed[Invocation(c)], DefaultStartStep + cc_i[c])

\* The next output of generator g: the output its seed gives at its
\* position (mt records it, by seed and position), any output when the
\* generator was seeded by the operating system.
StreamOutputs(g) ==
    IF rng[g].seed # NoSeed /\ <<Abs(rng[g].seed[1]), rng[g].pos>> \in DOMAIN mt
    THEN {mt[<<Abs(rng[g].seed[1]), rng[g].pos>>]}
    ELSE 0..(RandSteps - 1)

StreamMemoAfter(g, draw) ==
    IF rng[g].seed # NoSeed /\ <<Abs(rng[g].seed[1]), rng[g].pos>> \notin DOMAIN mt
    THEN (<<Abs(rng[g].seed[1]), rng[g].pos>> :> draw) @@ mt
    ELSE mt

InitConcurrent ==
    /\ catalog = LibraryCatalog /\ mt = NoMemo
    /\ cc_op \in [Invocations -> {"select_card", "simulate_full_run"}]
    /\ cc_seed \in [Invocations -> Seeds \ {NoSeed}]
    /\ cc_steps \in 1..MaxConcSteps
    /\ cc_pc = [c \in Runs |-> IF c <= 2 THEN "call" ELSE "wait"]
    /\ cc_i = [c \in Runs |-> 0]
    /\ cc_metrics = [c \in Runs |-> EdgeMetrics]
    /\ cc_used = [c \in Runs |-> << >>]
    /\ cc_out = [c \in Runs |-> << >>]
    /\ rng = [g \in Generators |-> NoGenerator]
    /\ ApplyIdle /\ FilterIdle /\ SelectIdle /\ SimIdle /\ StepIdle
    /\ ScoreIdle
    /\ EvalIdle /\ AiIdle /\ ResIdle

Ended(c) == cc_pc[c] \in {"returned", "raised"}

\* Run 3 starts when the concurrent runs have ended, run 4 when run 3 has.
StartAlone(c) ==
    /\ cc_pc[c] = "wait"
    /\ IF c = 3 THEN Ended(1) /\ Ended(2) ELSE Ended(3)
    /\ cc_pc' = [cc_pc EXCEPT ![c] = "call"]
    /\ UNCHANGED <<catalog, mt, cc_op, cc_seed, cc_steps, cc_i, cc_metrics,
                   cc_used, cc_out, rng, applyVars, filterVars, selectVars,
                   simVars, stepVars, scoreVars,
                   evalVars, aiVars, resVars>>

\* The invocation starts: select_card is entered, or simulate_full_run
\* makes its working copies and enters its loop.
Invoke(c) ==
    /\ cc_pc[c] = "call"
    /\ cc_pc' = [cc_pc EXCEPT ![c] = "select"]
    /\ UNCHANGED <<catalog, mt, cc_op, cc_seed, cc_steps, cc_i, cc_metrics,
                   cc_used, cc_out, rng, applyVars, filterVars, selectVars,
                   simVars, stepVars, scoreVars,
                   evalVars, aiVars, resVars>>

\* select_card: rng = Random(seed) if seed is not None else Random()
SelectCardRandom(c) ==
    /\ cc_pc[c] = "select"
    /\ rng' = [rng EXCEPT ![RngOf(c)] =
                  [seed |-> IF Seeded(SelectSeed(c)) THEN SelectSeed(c)
                            ELSE NoSeed,
                   pos  |-> 0]]
    /\ cc_pc' = [cc_pc EXCEPT ![c] = "choices"]
    /\ UNCHANGED <<catalog, mt, cc_op, cc_seed, cc_steps, cc_i, cc_metrics,
                   cc_used, cc_out, applyVars, filterVars, selectVars,
                   simVars, stepVars, scoreVars,
                   evalVars, aiVars, resVars>>

\* select_card from its step 1 to its return, drawing from its generator;
\* in simulate_full_run, the rest of the loop's iteration as well
SelectCardChoices(c) ==
    /\ cc_pc[c] = "choices"
    /\ \E draw \in StreamOutputs(RngOf(c)) :
          /\ mt' = StreamMemoAfter(RngOf(c), draw)
          /\ rng' = [rng EXCEPT ![RngOf(c)].pos = @ + 1]
          /\ IF cc_op[Invocation(c)] = "select_card"
             THEN \E res \in {SelectCard(catalog, cc_metrics[c], cc_used[c],
                                          draw)} :
                     /\ cc_out' = [cc_out EXCEPT ![c] = << res >>]
                     /\ cc_pc' = [cc_pc EXCEPT ![c] =
                                     IF res.status = "ok" THEN "returned"
                                     ELSE "raised"]
                     /\ UNCHANGED <<cc_i, cc_metrics, cc_used>>
             ELSE \E body \in {LoopBody(catalog, cc_metrics[c], cc_used[c],
                                         DefaultStartStep + cc_i[c], draw)} :
                  \E new_metrics \in {ApplyDeltas(cc_metrics[c], body.deltas)} :
                     IF body.status # "ok"
                     THEN /\ cc_pc' = [cc_pc EXCEPT ![c] = "raised"]
                          /\ UNCHANGED <<cc_i, cc_metrics, cc_used, cc_out>>
                     ELSE /\ cc_out' = [cc_out EXCEPT ![c] = Append(@,
                                  [step |-> DefaultStartStep + cc_i[c],
                                   cardId |-> body.cardId,
                                   chosenOptionId |-> body.chosenOptionId,
                                   metricsAfter |-> new_metrics,
                                   explanation |-> body.explanation])]
                          /\ cc_metrics' = [cc_metrics EXCEPT ![c] = new_metrics]
                          /\ cc_used' = [cc_used EXCEPT ![c] =
                                            Append(@, body.cardId)]
                          /\ cc_i' = [cc_i EXCEPT ![c] = @ + 1]
                          /\ cc_pc' = [cc_pc EXCEPT ![c] =
                                          IF cc_i[c] + 1 < cc_steps
                                          THEN "select" ELSE "returned"]
    /\ UNCHANGED <<catalog, cc_op, cc_seed, cc_steps, applyVars, filterVars,
                   selectVars, simVars, stepVars, scoreVars,
                   evalVars, aiVars, resVars>>

NextConcurrent ==
    \E c \in Runs :
        \/ StartAlone(c)
        \/ Invoke(c)
        \/ SelectCardRandom(c)
        \/ SelectCardChoices(c)

SpecConcurrent == InitConcurrent /\ [][NextConcurrent]_vars

\* C16: whatever the interleaving of the two concurrent invocations and
\* whatever their seeds, each ends as it ends when run alone, with the same
\* result (select_card: card, rationale and details; simulate_full_run:
\* the nodes).
C16_ConcurrentAsAlone ==
    (\A c \in Runs : Ended(c)) =>
        \A a \in Invocations :
            cc_pc[a] = cc_pc[a + 2] /\ cc_out[a] = cc_out[a + 2]

\* C16 for every invocation but simulate_full_run with seed 0, whose calls
\* of select_card get no seed.
ConcurrentAsAloneExceptZeroRun ==
    (\A c \in Runs : Ended(c)) =>
        \A a \in Invocations :
            (cc_op[a] = "simulate_full_run" /\ cc_seed[a] = Some(0))
            \/ (cc_pc[a] = cc_pc[a + 2] /\ cc_out[a] = cc_out[a + 2])

\* Every draw comes from the generator its own call built: when a call
\* draws, its generator holds that call's seed and has given no output.
DrawsAreLocal ==
    \A c \in Runs :
        cc_pc[c] = "choices" =>
            /\ rng[RngOf(c)].pos = 0
            /\ rng[RngOf(c)].seed =
                  (IF Seeded(SelectSeed(c)) THEN SelectSeed(c) ELSE NoSeed)

\* Two invocations with different seeds whose steps were interleaved (each
\* built its generator before the other drew) ended as they end alone,
\* with the draw deciding the card.
ConcurrentInterleavedReached ==
    /\ \A c \in Runs : Ended(c)
    /\ Abs(cc_seed[1][1]) # Abs(cc_seed[2][1])
    /\ cc_out[1] = cc_out[3] /\ cc_out[2] = cc_out[4]
    /\ cc_out[1] # cc_out[2]

----------------------------------------------------------------------------
(* SpecApply: a call of apply_deltas on any metrics state and deltas map *)

InitApply ==
    /\ catalog = << >> /\ mt = NoMemo
    /\ ad_pc = "call"
    /\ ad_metrics \in ApplyMetrics
    /\ ad_deltas \in ApplyDeltasMaps
    /\ ad_result = ZeroMetrics
    \* the caller's two objects: the metrics dict and the deltas dict
    /\ ad_heap = << ad_metrics, ad_deltas >>
    /\ FilterIdle /\ SelectIdle /\ SimIdle /\ StepIdle /\ ScoreIdle /\ ConcIdle
    /\ EvalIdle /\ AiIdle /\ ResIdle

\* apply_deltas on the caller's two objects: ad_heap is the store after
\* the call, ad_result the contents of the object returned
ApplyDeltasCall ==
    /\ ad_pc = "call"
    /\ \E out \in {ApplyDeltasOn(ad_heap, 1, 2)} :
          /\ ad_heap' = out.objs
          /\ ad_result' = out.objs[out.ref]
    /\ ad_pc' = "done"
    /\ UNCHANGED <<catalog, mt, ad_metrics, ad_deltas, filterVars, selectVars,
                   simVars, stepVars, scoreVars, concVars,
                   evalVars, aiVars, resVars>>

NextApply == ApplyDeltasCall

SpecApply == InitApply /\ [][NextApply]_vars

\* The formula of the sustainability score on the base fields of m, in
\* hundredths.
WeightedScore(m) ==
    (100 - m.waste) * 25 + (100 - m.emissions) * 25 + (100 - m.cost) * 15
    + m.efficiency * 20 + m.communityTrust * 15

\* C1: whatever the starting MetricsState and the deltas map (any subset of
\* the five base dimensions, any signed amounts), every base dimension of
\* the state apply_deltas returns lies in [0,100].
C1_BaseDimensionsClamped ==
    ad_pc = "done" =>
        \A k \in BaseKeys : ad_result[k] >= 0 /\ ad_result[k] <= 100

\* A call whose deltas push one dimension above 100 and another below 0.
C1_Witness ==
    /\ ad_pc = "done"
    /\ \E k \in DOMAIN ad_deltas :
          ad_metrics[k] + ad_deltas[k] > 100 /\ ad_result[k] = 100
    /\ \E k \in DOMAIN ad_deltas :
          ad_metrics[k] + ad_deltas[k] < 0 /\ ad_result[k] = 0

\* C2: the sustainabilityScore apply_deltas returns is the weighted formula
\* on the returned base fields, whatever score the input carried.
C2_ScoreIsFormulaOfResult ==
    ad_pc = "done" => ad_result.sustainabilityScore = WeightedScore(ad_result)

\* A call whose input carried a stale score and whose deltas moved the score.
C2_Witness ==
    /\ ad_pc = "done"
    /\ ad_metrics.sustainabilityScore # WeightedScore(ad_metrics)
    /\ WeightedScore(ad_result) # WeightedScore(ad_metrics)
    /\ ad_result.sustainabilityScore # ad_metrics.sustainabilityScore

\* C13: apply_deltas leaves the metrics object and the deltas object it was
\* handed as they were, and every base dimension without an entry in deltas
\* has the same value in the returned state as in the input state.
C13_InputsUntouched ==
    ad_pc = "done" =>
        /\ ad_heap[1] = ad_metrics
        /\ ad_heap[2] = ad_deltas
        /\ \A k \in BaseKeys \ DOMAIN ad_deltas : ad_result[k] = ad_metrics[k]

\* A call that returned a state differing from its input in a dimension of
\* deltas, while another dimension had no entry.
C13_Witness ==
    /\ ad_pc = "done"
    /\ \E k \in DOMAIN ad_deltas : ad_result[k] # ad_metrics[k]
    /\ \E k \in BaseKeys \ DOMAIN ad_deltas : ad_result[k] = ad_metrics[k]
    /\ ad_heap[1] = ad_metrics /\ ad_heap[3] = ad_result

----------------------------------------------------------------------------
(* SpecFilter: a call of filter_by_triggers *)

InitFilter ==
    /\ catalog = << >> /\ mt = NoMemo
    /\ ft_pc = "call"
    /\ ft_metrics \in FilterMetrics
    /\ ft_cards \in FilterCardLists
    /\ ft_result = << >>
    /\ ApplyIdle /\ SelectIdle /\ SimIdle /\ StepIdle /\ ScoreIdle /\ ConcIdle
    /\ EvalIdle /\ AiIdle /\ ResIdle

FilterByTriggersCall ==
    /\ ft_pc = "call"
    /\ ft_result' = FilterByTriggers(ft_metrics, ft_cards)
    /\ ft_pc' = "done"
    /\ UNCHANGED <<catalog, mt, ft_metrics, ft_cards, applyVars, selectVars,
                   simVars, stepVars, scoreVars, concVars,
                   evalVars, aiVars, resVars>>

NextFilter == FilterByTriggersCall

SpecFilter == InitFilter /\ [][NextFilter]_vars

\* The metric a trigger bound is compared against.
TriggerMetric(key) ==
    CASE key \in {"waste_min", "waste_max"} -> "waste"
      [] key \in {"emissions_min", "emissions_max"} -> "emissions"
      [] key \in {"cost_min", "cost_max"} -> "cost"
      [] key \in {"efficiency_min", "efficiency_max"} -> "efficiency"
      [] key \in {"trust_min", "trust_max"} -> "communityTrust"

MinKeys ==
    {"waste_min", "emissions_min", "cost_min", "efficiency_min", "trust_min"}

\* Every bound present holds: metric >= bound for a *_min, metric <= bound
\* for a *_max.  No bounds: nothing to hold.
TriggersSatisfied(metrics, triggers) ==
    \A key \in DOMAIN triggers :
        IF key \in MinKeys
        THEN metrics[TriggerMetric(key)] >= triggers[key]
        ELSE metrics[TriggerMetric(key)] <= triggers[key]

\* C8: filter_by_triggers keeps a card if and only if it has no trigger
\* bounds or every bound present holds (equality passes, trust bounds are
\* compared against communityTrust); the kept cards keep their order.
C8_FilterKeepsExactlySatisfied ==
    ft_pc = "done" =>
        ft_result = SelectSeq(ft_cards, LAMBDA card :
                        TriggersSatisfied(ft_metrics, card.triggers))

\* The card {waste_min, trust_max} is kept with both metrics exactly at
\* their bounds, and a first card that has bounds is dropped.
C8_Witness ==
    /\ ft_pc = "done"
    /\ Len(ft_cards) = 3
    /\ ft_metrics.waste = FilterBound /\ ft_metrics.communityTrust = FilterBound
    /\ DOMAIN ft_cards[1].triggers # {}
    /\ ft_result = << ft_cards[2], ft_cards[3] >>

----------------------------------------------------------------------------
(* SpecScore: a call of score_card, with the urgency select_card hands it *)

Tags == {"waste", "emissions", "cost", "efficiency", "trust", "policy"}

\* Tag lists of the scored cards: up to MaxTags tags, in any order.
MaxTags == 2
TagLists == UNION { [1..n -> Tags] : n \in 0..MaxTags }

ScoreCards ==
    { Card("scored", tags, severity, NoTriggers, FilterOptions) :
        tags \in TagLists, severity \in {"easy", "medium", "hard"} }

\* Metrics states of the calls, each with a score just below 40, at 40 and
\* above it.
ScoreMetrics ==
    { MetricsOf(b[1], b[2], b[3], b[4], b[5], sc) :
        b \in ApplyBaseStates \cup { <<70, 50, 40, 50, 30>> },
        sc \in {0, 3995, 4000, 4350} }

InitScore ==
    /\ catalog = << >> /\ mt = NoMemo
    /\ sc_pc = "call"
    /\ sc_card \in ScoreCards
    /\ sc_metrics \in ScoreMetrics
    /\ sc_result = [score |-> 0, factors |-> << >>]
    /\ ApplyIdle /\ FilterIdle /\ SelectIdle /\ SimIdle /\ StepIdle
    /\ ConcIdle
    /\ EvalIdle /\ AiIdle /\ ResIdle

ScoreCardCall ==
    /\ sc_pc = "call"
    /\ sc_result' = ScoreCard(sc_card, sc_metrics,
                              CalculateUrgencyScore(sc_metrics))
    /\ sc_pc' = "done"
    /\ UNCHANGED <<catalog, mt, sc_card, sc_metrics, applyVars, filterVars,
                   selectVars, simVars, stepVars, concVars,
                   evalVars, aiVars, resVars>>

NextScore == ScoreCardCall

SpecScore == InitScore /\ [][NextScore]_vars

\* The urgency of a tag as the claims give it, in percent: the metric
\* itself for waste, emissions and cost, its distance from 100 for
\* efficiency and trust; policy has none.
TagUrgency(tag, metrics) ==
    CASE tag \in {"waste", "emissions", "cost"} -> metrics[tag]
      [] tag = "efficiency" -> 100 - metrics.efficiency
      [] tag = "trust" -> 100 - metrics.communityTrust
      [] OTHER -> 0

\* The pre-multiplier score of the claims, in twentieths: 10 plus
\* urgency * 30 for each of the card's tags.
RECURSIVE PreMultiplierScore(_, _)
PreMultiplierScore(tags, metrics) ==
    IF tags = << >> THEN 10 * 20
    ELSE TagUrgency(tags[Len(tags)], metrics) * 6
         + PreMultiplierScore(SubSeq(tags, 1, Len(tags) - 1), metrics)

\* The flat 15 of a sustainabilityScore below 40, in twentieths.
LowScoreBonus(metrics) ==
    IF metrics.sustainabilityScore < 40 * 100 THEN 15 * 20 ELSE 0

\* C17 as claimed: for every hard card and every metrics state, the score
\* of score_card is exactly 2 times the pre-multiplier score.
C17_HardScoreIsDouble ==
    (sc_pc = "done" /\ sc_card.severity = "hard") =>
        sc_result.score = 2 * PreMultiplierScore(sc_card.tags, sc_metrics)

\* C17 amended: for every hard card and every metrics state, the score of
\* score_card is exactly 2 times the pre-multiplier score, plus the flat 15
\* when sustainabilityScore is below 40.
C17_HardScoreIsDoublePlusBonus ==
    (sc_pc = "done" /\ sc_card.severity = "hard") =>
        sc_result.score = 2 * PreMultiplierScore(sc_card.tags, sc_metrics)
                          + LowScoreBonus(sc_metrics)

\* A hard card with an urgent tag, scored in a state below 40.
C17_Witness ==
    /\ sc_pc = "done" /\ sc_card.severity = "hard"
    /\ sc_metrics.sustainabilityScore < 40 * 100
    /\ PreMultiplierScore(sc_card.tags, sc_metrics) > 10 * 20
    /\ sc_result.score = 2 * PreMultiplierScore(sc_card.tags, sc_metrics)
                          + 15 * 20

\* score_card gives every card a score of at least 10 in every in-range
\* state (the first half of C28, for the cards and states of SpecScore).
ScoreAtLeastTen ==
    (sc_pc = "done" /\ BaseInRange(sc_metrics)) => sc_result.score >= 10 * 20

\* The metric a tag stands for.
MetricOfTag(tag) == IF tag = "trust" THEN "communityTrust" ELSE tag

\* The "High <tag> urgency" factors the claims expect for the tags, in tag
\* order: one for every tag whose urgency is above 0.6, with urgency * 30
\* (in twentieths) and the raw value of the tag's metric.
RECURSIVE ExpectedUrgencyFactors(_, _)
ExpectedUrgencyFactors(tags, metrics) ==
    IF tags = << >> THEN << >>
    ELSE LET tag == Head(tags)
             rest == ExpectedUrgencyFactors(Tail(tags), metrics)
         IN  IF tag # "policy" /\ TagUrgency(tag, metrics) > 60
             THEN << [factor |-> <<"High urgency", tag>>,
                      score  |-> TagUrgency(tag, metrics) * 6,
                      reason |-> <<tag, metrics[MetricOfTag(tag)]>>] >> \o rest
             ELSE rest

\* The "High <tag> urgency" factors score_card recorded.
RecordedUrgencyFactors ==
    SelectSeq(sc_result.factors, LAMBDA f : f.factor[1] = "High urgency")

\* C25: score_card records a factor "High <tag> urgency" for every card tag
\* whose urgency is above 0.6 and for no other, with the contribution
\* urgency * 30 and a reason that cites the current raw value of the tag's
\* metric, for the tag trust the value of communityTrust.
C25_UrgentTagFactors ==
    sc_pc = "done" =>
        RecordedUrgencyFactors = ExpectedUrgencyFactors(sc_card.tags, sc_metrics)

\* What score_card records: the factors of C25, but with the value 0 cited
\* for the tag trust, since the state has no key "trust".
UrgentTagFactorsCiteZeroTrust ==
    sc_pc = "done" =>
        /\ Len(RecordedUrgencyFactors)
              = Len(ExpectedUrgencyFactors(sc_card.tags, sc_metrics))
        /\ \A n \in DOMAIN RecordedUrgencyFactors :
              LET recorded == RecordedUrgencyFactors[n]
                  expected == ExpectedUrgencyFactors(sc_card.tags, sc_metrics)[n]
              IN  /\ recorded.factor = expected.factor
                  /\ recorded.score = expected.score
                  /\ recorded.reason =
                        IF expected.factor[2] = "trust" THEN <<"trust", 0>>
                        ELSE expected.reason

\* score_card recorded a trust factor for a state whose communityTrust is
\* not 0.
TrustFactorReached ==
    /\ sc_pc = "done" /\ sc_metrics.communityTrust > 0
    /\ \E n \in DOMAIN RecordedUrgencyFactors :
          RecordedUrgencyFactors[n].factor = <<"High urgency", "trust">>

\* C19: the score of score_card is the pre-multiplier score (a tag without
\* urgency entry, policy, adding nothing) times the severity multiplier
\* (easy 1.0, medium 1.5, hard 2.0, here in halves), baseline and boosts
\* together, plus 15 after the multiplication exactly when
\* sustainabilityScore < 40.
C19_ScoreFormula ==
    sc_pc = "done" =>
        LET halves == CASE sc_card.severity = "easy" -> 2
                        [] sc_card.severity = "medium" -> 3
                        [] sc_card.severity = "hard" -> 4
        IN  /\ 2 * (sc_result.score - LowScoreBonus(sc_metrics))
                  = halves * PreMultiplierScore(sc_card.tags, sc_metrics)
            /\ (sc_result.score
                   # (halves * PreMultiplierScore(sc_card.tags, sc_metrics)) \div 2)
                  <=> sc_metrics.sustainabilityScore < 40 * 100

\* A medium card with the tag policy and an urgent tag, scored in a state
\* below 40: the policy tag added nothing and the 15 was not multiplied.
C19_Witness ==
    /\ sc_pc = "done" /\ sc_card.severity = "medium"
    /\ sc_card.tags = <<"policy", "waste">>
    /\ sc_metrics.waste > 0
    /\ sc_metrics.sustainabilityScore < 40 * 100
    /\ 2 * sc_result.score = 3 * (10 * 20 + sc_metrics.waste * 6) + 2 * 15 * 20

----------------------------------------------------------------------------
(* SpecEval: evaluate_option or select_best_option, called on two metrics  *)
(* states with the same base dimensions                                    *)

\* Options whose deltas sit at and just past the thresholds of the cost and
\* the trust penalty, and two that differ but are worth exactly the same
\* in the saturated state.
EvalOptions ==
    { Option("cost10", [cost |-> 10, waste |-> -20]),
      Option("cost11", [cost |-> 11, efficiency |-> 10]),
      Option("trust5", [communityTrust |-> -5, emissions |-> -20]),
      Option("trust6", [communityTrust |-> -6, efficiency |-> -10]),
      Option("retrofit", [emissions |-> -30, cost |-> -30]),
      Option("tuning", [emissions |-> -20, efficiency |-> 15]) }

\* Cards of up to MaxOptions different options, in any order.
MaxOptions == 3
OptionLists ==
    { opts \in UNION { [1..n -> EvalOptions] : n \in 0..MaxOptions } :
        \A a, b \in DOMAIN opts : a # b => opts[a] # opts[b] }

\* Base dimensions of the calls: a middling state, and one where the deltas
\* of the options run into the limits 0 and 100.
SaturatedMetrics == MetricsOf(0, 10, 95, 100, 2, 0)
EvalBases == {MidMetrics, SaturatedMetrics}

\* The sustainabilityScore the calls are handed: the one of the base
\* dimensions, or a stale one.
StaleScores == {0, 100 * 100}
EvalScores(base) == {CalculateSustainabilityScore(base)} \cup StaleScores

InitEval ==
    /\ catalog = << >> /\ mt = NoMemo
    /\ ev_pc = [r \in Calls |-> "call"]
    /\ ev_op \in {"evaluate_option", "select_best_option"}
    /\ \E options \in OptionLists :
          /\ ev_card = Card("evaluated", << >>, "easy", NoTriggers, options)
          /\ IF ev_op = "evaluate_option"
             THEN ev_n \in DOMAIN options ELSE ev_n = 0
    /\ \E base \in EvalBases :
          ev_metrics \in [Calls -> { [base EXCEPT !.sustainabilityScore = sc] :
                                        sc \in EvalScores(base) }]
    /\ ev_result = [r \in Calls |-> NoEvaluation]
    /\ ApplyIdle /\ FilterIdle /\ SelectIdle /\ SimIdle /\ StepIdle
    /\ ScoreIdle /\ ConcIdle /\ AiIdle /\ ResIdle

\* evaluate_option(ev_card["options"][ev_n], ev_metrics[r])
EvaluateOptionCall(r) ==
    /\ ev_pc[r] = "call" /\ ev_op = "evaluate_option"
    /\ \E ev \in {EvaluateOption(ev_card.options[ev_n], ev_metrics[r])} :
          ev_result' = [ev_result EXCEPT ![r] =
                           [option |-> ev_card.options[ev_n],
                            score |-> ev.score,
                            explanation |-> ev.explanation,
                            errors |-> << >>]]
    /\ ev_pc' = [ev_pc EXCEPT ![r] = "returned"]
    /\ UNCHANGED <<catalog, mt, ev_op, ev_n, ev_card, ev_metrics, applyVars,
                   filterVars, selectVars, simVars, stepVars, scoreVars,
                   concVars, aiVars, resVars>>

\* The rounding errors the objectives of the card's options can have in
\* the state metrics: any for an option whose exact objective another
\* option equals, and of no account (0) for the others.
RoundingErrors(card, metrics) ==
    LET exact == [n \in DOMAIN card.options |->
                     EvaluateOption(card.options[n], metrics).score]
        tied == { n \in DOMAIN exact :
                    \E m \in DOMAIN exact : m # n /\ exact[m] = exact[n] }
    IN  { [n \in DOMAIN exact |-> IF n \in tied THEN errors[n] ELSE 0] :
            errors \in [tied -> Ulps] }

\* The errors of call r: float arithmetic is deterministic, so those of the
\* other call when that has returned from the same arguments.
ErrorsOf(r) ==
    LET other == CHOOSE o \in Calls : o # r
    IN  IF ev_pc[other] = "returned" /\ ev_metrics[other] = ev_metrics[r]
        THEN {ev_result[other].errors}
        ELSE RoundingErrors(ev_card, ev_metrics[r])

\* select_best_option(ev_card, ev_metrics[r]); evaluated[0] of a card
\* without options raises IndexError
SelectBestOptionCall(r) ==
    /\ ev_pc[r] = "call" /\ ev_op = "select_best_option"
    /\ IF ev_card.options = << >>
       THEN /\ ev_pc' = [ev_pc EXCEPT ![r] = "raised"]
            /\ UNCHANGED ev_result
       ELSE /\ \E errors \in ErrorsOf(r) :
               \E best \in {SelectBestOptionRounded(ev_card, ev_metrics[r],
                                                    errors)} :
                  ev_result' = [ev_result EXCEPT ![r] =
                                   [option |-> best.option,
                                    score |-> best.score,
                                    explanation |-> best.explanation,
                                    errors |-> errors]]
            /\ ev_pc' = [ev_pc EXCEPT ![r] = "returned"]
    /\ UNCHANGED <<catalog, mt, ev_op, ev_n, ev_card, ev_metrics, applyVars,
                   filterVars, selectVars, simVars, stepVars, scoreVars,
                   concVars, aiVars, resVars>>

NextEval == \E r \in Calls : EvaluateOptionCall(r) \/ SelectBestOptionCall(r)

SpecEval == InitEval /\ [][NextEval]_vars

\* A delta of the option, 0 when the option has none for the dimension.
RawDelta(option, k) == IF k \in DOMAIN option.deltas THEN option.deltas[k] ELSE 0

\* The score of the state the option leads to from m, in hundredths: the
\* weighted formula on the base dimensions moved by the raw deltas and held
\* in [0,100].
ProjectedScore(option, m) ==
    WeightedScore([k \in BaseKeys |->
                      Max(0, Min(100, m[k] + RawDelta(option, k)))])

\* The objective of the claims, in hundredths.
Objective(option, m) ==
    5 * (ProjectedScore(option, m) - m.sustainabilityScore)
    + (IF RawDelta(option, "cost") > 10
       THEN (0 - 2) * RawDelta(option, "cost") * 100 ELSE 0)
    + (IF RawDelta(option, "communityTrust") < 0 - 5
       THEN 3 * RawDelta(option, "communityTrust") * 100 ELSE 0)
    + 150 * RawDelta(option, "efficiency")

\* C21: evaluate_option returns 5 * (projected score - current score)
\* + cost_penalty + trust_penalty + 1.5 * efficiency delta, the cost penalty
\* -2 * cost delta only above 10, the trust penalty 3 * trust delta only
\* below -5, absent deltas as 0, and penalties and bonus on the raw deltas.
C21_ObjectiveFormula ==
    \A r \in Calls :
        (ev_op = "evaluate_option" /\ ev_pc[r] = "returned") =>
            ev_result[r].score = Objective(ev_card.options[ev_n], ev_metrics[r])

\* evaluate_option returned for an option whose cost delta is exactly 10,
\* without penalty, in a state where the limit 0 cut its waste delta short.
C21_Witness ==
    /\ ev_op = "evaluate_option" /\ ev_pc[1] = "returned"
    /\ RawDelta(ev_card.options[ev_n], "cost") = 10
    /\ ev_metrics[1].waste + RawDelta(ev_card.options[ev_n], "waste") < 0
    /\ ev_result[1].score
          = 5 * (ProjectedScore(ev_card.options[ev_n], ev_metrics[1])
                 - ev_metrics[1].sustainabilityScore)

\* The penalties are on the raw deltas: an option whose cost delta of 11
\* moves the cost by 5 only is charged 22, and its efficiency delta of 10,
\* which moves nothing, earns 15.
RawDeltasCharged ==
    /\ ev_op = "evaluate_option" /\ ev_pc[1] = "returned"
    /\ RawDelta(ev_card.options[ev_n], "cost") = 11
    /\ ev_metrics[1].cost = 95 /\ ev_metrics[1].efficiency = 100
    /\ ev_result[1].score
          = 5 * (ProjectedScore(ev_card.options[ev_n], ev_metrics[1])
                 - ev_metrics[1].sustainabilityScore)
            - 22 * 100 + 15 * 100

\* The objective of option n as call r computed it: the objective of the
\* claims with the rounding error of the call.
FloatObjective(r, n) ==
    FloatKey(Objective(ev_card.options[n], ev_metrics[r]),
             ev_result[r].errors[n])

\* C22: select_best_option returns an option of the card whose objective is
\* at least that of every other option of the card, and of the options
\* with the maximal objective the one that is first in the card's order.
C22_BestOptionFirstOfMaximal ==
    \A r \in Calls :
        (ev_op = "select_best_option" /\ ev_pc[r] = "returned") =>
            \E k \in DOMAIN ev_card.options :
                /\ ev_result[r].option = ev_card.options[k]
                /\ \A j \in DOMAIN ev_card.options :
                      /\ FloatObjective(r, j) <= FloatObjective(r, k)
                      /\ j < k => FloatObjective(r, j) < FloatObjective(r, k)

\* select_best_option returned the second of three options, which the
\* third equals in objective and the first does not reach.
C22_Witness ==
    /\ ev_op = "select_best_option" /\ ev_pc[1] = "returned"
    /\ Len(ev_card.options) = 3
    /\ ev_result[1].option = ev_card.options[2]
    /\ ev_card.options[3] # ev_card.options[2]
    /\ FloatObjective(1, 3) = FloatObjective(1, 2)
    /\ FloatObjective(1, 1) < FloatObjective(1, 2)

\* C30: two calls of select_best_option on states that agree on the five
\* base dimensions and differ only in sustainabilityScore return the same
\* option, for every card.
C30_ChoiceIgnoresStaleScore ==
    (/\ ev_op = "select_best_option"
     /\ \A r \in Calls : ev_pc[r] = "returned") =>
        ev_result[1].option = ev_result[2].option

\* The stale score itself shifts every exact objective alike: the two
\* calls differ only where two options have the same exact objective and
\* the rounding orders them differently.
ChoiceDiffersOnlyOnExactTies ==
    (/\ ev_op = "select_best_option"
     /\ \A r \in Calls : ev_pc[r] = "returned") =>
        /\ \A a, b \in DOMAIN ev_card.options :
              Objective(ev_card.options[a], ev_metrics[1])
                - Objective(ev_card.options[b], ev_metrics[1])
              = Objective(ev_card.options[a], ev_metrics[2])
                - Objective(ev_card.options[b], ev_metrics[2])
        /\ ev_result[1].option # ev_result[2].option =>
              /\ Objective(ev_result[1].option, ev_metrics[1])
                    = Objective(ev_result[2].option, ev_metrics[1])
              /\ ev_result[1].errors # ev_result[2].errors
        /\ ev_metrics[1] = ev_metrics[2] => ev_result[1] = ev_result[2]

\* The two calls returned different options of one card in the saturated
\* state, one handed the score 0 and the other the score 100.
StaleScoreDecided ==
    /\ ev_op = "select_best_option"
    /\ \A r \in Calls : ev_pc[r] = "returned"
    /\ ev_metrics[1].sustainabilityScore = 0
    /\ ev_metrics[2].sustainabilityScore = 100 * 100
    /\ ev_metrics[1].cost = 95
    /\ ev_result[1].option.id = "retrofit"
    /\ ev_result[2].option.id = "tuning"

----------------------------------------------------------------------------
(* SpecResume: a seeded call of simulate_full_run for a + b steps (part 1), *)
(* and the same run made in two calls: a steps (part 2), then b steps from  *)
(* the state part 2 ended in (part 3)                                       *)

\* a and b: 1..MaxPart.
MaxPart == 1

ResumeSeeds == Seeds \ {NoSeed}

InitResume ==
    /\ catalog \in Catalogs /\ mt = NoMemo
    /\ rs_args \in { [metrics |-> m, a |-> a, b |-> b, start_step |-> st,
                      used |-> u, seed |-> sd] :
                        m \in CallMetrics, a \in 1..MaxPart, b \in 1..MaxPart,
                        st \in StartSteps, u \in SimUsedLists(catalog),
                        sd \in ResumeSeeds }
    /\ rs_pc = [p \in Parts |-> IF p = 1 THEN "call" ELSE "idle"]
    /\ rs_i = [p \in Parts |-> 0]
    /\ rs_metrics = [p \in Parts |-> ZeroMetrics]
    /\ rs_used = [p \in Parts |-> << >>]
    /\ rs_out = [p \in Parts |-> << >>]
    /\ ApplyIdle /\ FilterIdle /\ SelectIdle /\ SimIdle /\ StepIdle
    /\ ScoreIdle /\ ConcIdle /\ EvalIdle /\ AiIdle

\* The cardIds of the nodes part p has produced.
PartCardIds(p) == [k \in DOMAIN rs_out[p] |-> rs_out[p][k].cardId]

\* The arguments of part p: the whole run, its first a steps, and the b
\* steps from m' (the last metricsAfter of part 2) and U' (U followed by
\* the cardIds of part 2) at start + a.
PartSteps(p) ==
    IF p = 1 THEN rs_args.a + rs_args.b
    ELSE IF p = 2 THEN rs_args.a ELSE rs_args.b

PartStartStep(p) ==
    IF p = 3 THEN rs_args.start_step + rs_args.a ELSE rs_args.start_step

PartInitialMetrics(p) ==
    IF p = 3 THEN rs_out[2][Len(rs_out[2])].metricsAfter ELSE rs_args.metrics

PartUsedCardIds(p) ==
    IF p = 3 THEN rs_args.used \o PartCardIds(2) ELSE rs_args.used

\* The call before part p has ended; part 3 is made only from a first part
\* that returned its a nodes.
PartCanStart(p) ==
    \/ p = 1
    \/ p = 2 /\ rs_pc[1] \in {"returned", "raised"}
    \/ p = 3 /\ rs_pc[2] = "returned" /\ Len(rs_out[2]) = rs_args.a

\* simulate_full_run up to its loop, for part p
ResumeCall(p) ==
    /\ rs_pc[p] \in {"call", "idle"} /\ PartCanStart(p)
    /\ rs_metrics' = [rs_metrics EXCEPT ![p] = PartInitialMetrics(p)]
    /\ rs_used' = [rs_used EXCEPT ![p] = PartUsedCardIds(p)]
    /\ rs_out' = [rs_out EXCEPT ![p] = << >>]
    /\ rs_i' = [rs_i EXCEPT ![p] = 0]
    /\ rs_pc' = [rs_pc EXCEPT ![p] =
                     IF 0 < PartSteps(p) THEN "loop" ELSE "returned"]
    /\ UNCHANGED <<catalog, mt, rs_args, applyVars, filterVars, selectVars,
                   simVars, stepVars, scoreVars, concVars, evalVars, aiVars>>

\* One iteration of the loop of simulate_full_run in part p
ResumeStep(p) ==
    /\ rs_pc[p] = "loop"
    /\ \E step \in {PartStartStep(p) + rs_i[p]} :
       \E draw \in RngOutputs(StepSeed(rs_args.seed, step)) :
       \E body \in {LoopBody(catalog, rs_metrics[p], rs_used[p], step, draw)} :
          /\ mt' = MemoAfter(StepSeed(rs_args.seed, step), draw,
                             body.status = "ok")
          /\ IF body.status # "ok"
             THEN /\ rs_pc' = [rs_pc EXCEPT ![p] = "raised"]
                  /\ UNCHANGED <<rs_i, rs_metrics, rs_used, rs_out>>
             ELSE IF body.cardId = ""
             THEN /\ rs_pc' = [rs_pc EXCEPT ![p] = "returned"]
                  /\ UNCHANGED <<rs_i, rs_metrics, rs_used, rs_out>>
             ELSE \E new_metrics \in {ApplyDeltas(rs_metrics[p], body.deltas)} :
                  /\ rs_out' = [rs_out EXCEPT ![p] = Append(@,
                                  [step |-> step,
                                   cardId |-> body.cardId,
                                   chosenOptionId |-> body.chosenOptionId,
                                   metricsAfter |-> new_metrics,
                                   explanation |-> body.explanation])]
                  /\ rs_metrics' = [rs_metrics EXCEPT ![p] = new_metrics]
                  /\ rs_used' = [rs_used EXCEPT ![p] = Append(@, body.cardId)]
                  /\ rs_i' = [rs_i EXCEPT ![p] = @ + 1]
                  /\ rs_pc' = [rs_pc EXCEPT ![p] =
                                   IF rs_i[p] + 1 < PartSteps(p)
                                   THEN "loop" ELSE "returned"]
    /\ catalog' = CatalogAfterSelect(catalog, rs_metrics[p], rs_used[p])
    /\ UNCHANGED <<rs_args, applyVars, filterVars, selectVars,
                   simVars, stepVars, scoreVars, concVars, evalVars, aiVars>>

NextResume == \E p \in Parts : ResumeCall(p) \/ ResumeStep(p)

SpecResume == InitResume /\ [][NextResume]_vars

\* All three calls have returned.
PartsReturned == \A p \in Parts : rs_pc[p] = "returned"

\* C29: a seeded run can be split and resumed: the nodes of
\* simulate_full_run(m, a+b, start, U, seed) are those of
\* simulate_full_run(m, a, start, U, seed) followed by those of
\* simulate_full_run(m', b, start+a, U', seed), with m' the last
\* metricsAfter of the first part and U' = U followed by its cardIds.
C29_SplitRunResumes ==
    PartsReturned => rs_out[1] = rs_out[2] \o rs_out[3]

\* C29 for the seeds other than 0.
SplitRunResumesExceptZero ==
    (PartsReturned /\ rs_args.seed # Some(0)) =>
        rs_out[1] = rs_out[2] \o rs_out[3]

\* A split run with a non-zero seed in which the draw of the resumed step
\* decided the card.
SplitRunResumedReached ==
    /\ PartsReturned /\ rs_args.seed # Some(0)
    /\ Len(rs_out[3]) = rs_args.b
    /\ rs_out[1] = rs_out[2] \o rs_out[3]
    /\ \E draw \in 0..(RandSteps - 1) :
          LoopBody(catalog, rs_out[2][Len(rs_out[2])].metricsAfter,
                   rs_args.used \o PartCardIds(2),
                   rs_args.start_step + rs_args.a, draw).cardId
              # rs_out[3][1].cardId

\* With seed 0 the resumed part took another card than the whole run.
SplitRunDivergedOnZero ==
    /\ PartsReturned /\ rs_args.seed = Some(0)
    /\ rs_out[2] = SubSeq(rs_out[1], 1, rs_args.a)
    /\ rs_out[3][1].cardId # rs_out[1][rs_args.a + 1].cardId

----------------------------------------------------------------------------
(* SpecValidate: enhance_card_selection calls validate_card_with_gemini    *)
(* and reads the record it returns                                         *)

\* max_retries: 0..MaxRetries (the default, which enhance_card_selection
\* uses, is 2).
MaxRetries == 2

InitValidate ==
    /\ catalog = << >> /\ mt = NoMemo
    /\ ai_pc = "call"
    /\ ai_model \in BOOLEAN
    /\ ai_max_retries \in 0..MaxRetries
    /\ ai_attempt = 0 /\ ai_generated = 0
    /\ ai_result = << >> /\ ai_read = ""
    /\ ApplyIdle /\ FilterIdle /\ SelectIdle /\ SimIdle /\ StepIdle
    /\ ScoreIdle /\ ConcIdle /\ EvalIdle /\ ResIdle

\* validate_card_with_gemini up to its loop: without a model it returns
\* at once
ValidateCardWithGeminiCall ==
    /\ ai_pc = "call"
    /\ IF ~ ai_model
       THEN /\ ai_result' = FallbackRecord("Gemini not available")
            /\ ai_pc' = "returned"
       ELSE /\ ai_pc' = "loop"
            /\ UNCHANGED ai_result
    /\ UNCHANGED <<catalog, mt, ai_model, ai_max_retries, ai_attempt,
                   ai_generated, ai_read, applyVars, filterVars, selectVars,
                   simVars, stepVars, scoreVars, concVars, evalVars, resVars>>

\* One iteration of "for attempt in range(max_retries)"
GenerateContent ==
    /\ ai_pc = "loop" /\ ai_attempt < ai_max_retries
    /\ ai_generated' = ai_generated + 1
    /\ \E outcome \in ServiceOutcomes :
       \E it \in {ValidationAttempt(outcome, ai_attempt, ai_max_retries)} :
          IF it.ends = "return"
          THEN /\ ai_result' = it.result
               /\ ai_pc' = "returned"
               /\ UNCHANGED ai_attempt
          ELSE /\ ai_attempt' = ai_attempt + 1
               /\ UNCHANGED <<ai_result, ai_pc>>
    /\ UNCHANGED <<catalog, mt, ai_model, ai_max_retries, ai_read,
                   applyVars, filterVars, selectVars, simVars, stepVars,
                   scoreVars, concVars, evalVars, resVars>>

\* The loop has run out: the return after it
LoopExhausted ==
    /\ ai_pc = "loop" /\ ai_attempt >= ai_max_retries
    /\ ai_result' = FallbackRecord("Default reasoning")
    /\ ai_pc' = "returned"
    /\ UNCHANGED <<catalog, mt, ai_model, ai_max_retries, ai_attempt,
                   ai_generated, ai_read, applyVars, filterVars, selectVars,
                   simVars, stepVars, scoreVars, concVars, evalVars, resVars>>

\* enhance_card_selection reads the three keys of the record
EnhanceCardSelectionReads ==
    /\ ai_pc = "returned"
    /\ ai_read' = EnhanceReads(ai_result)
    /\ ai_pc' = "read"
    /\ UNCHANGED <<catalog, mt, ai_model, ai_max_retries, ai_attempt,
                   ai_generated, ai_result, applyVars, filterVars, selectVars,
                   simVars, stepVars, scoreVars, concVars, evalVars, resVars>>

NextValidate ==
    \/ ValidateCardWithGeminiCall
    \/ GenerateContent
    \/ LoopExhausted
    \/ EnhanceCardSelectionReads

SpecValidate == InitValidate /\ [][NextValidate]_vars

\* C26: validate_card_with_gemini makes at most max_retries generation
\* attempts and, whatever the service does, returns a record with
\* confidence in [0,1], reasoning and priority_level, so that
\* enhance_card_selection reads all three keys without failing.
C26_ValidationRecordComplete ==
    /\ ai_generated <= ai_max_retries
    /\ ai_pc \in {"returned", "read"} =>
          /\ ValidationKeys \subseteq DOMAIN ai_result
          /\ ai_result["confidence"] >= 0 /\ ai_result["confidence"] <= 100
    /\ ai_pc = "read" => ai_read = "ok"

\* What holds instead: at most max_retries attempts, confidence and
\* reasoning always there with confidence in [0,1], and priority_level
\* missing only from a record that came from the service.
ValidationRecordExceptPriority ==
    /\ ai_generated <= ai_max_retries
    /\ ai_pc \in {"returned", "read"} =>
          /\ {"confidence", "reasoning"} \subseteq DOMAIN ai_result
          /\ ai_result["confidence"] >= 0 /\ ai_result["confidence"] <= 100
          /\ "priority_level" \notin DOMAIN ai_result =>
                ai_result["reasoning"] = "service reasoning"
    /\ ai_pc = "read" =>
          (ai_read = "ok" <=> "priority_level" \in DOMAIN ai_result)

\* enhance_card_selection failed on the record of the second attempt.
KeyErrorReached ==
    /\ ai_pc = "read" /\ ai_read = "KeyError"
    /\ ai_generated = 2 /\ ai_result["confidence"] = 100

----------------------------------------------------------------------------
(* SpecStep: a call of simulate_step, or a request to the apply-decision    *)
(* handler                                                                  *)

\* The option identifiers a caller names: those of the catalog's options,
\* one no card has, and the empty string.
OptionIds(cards) ==
    UNION { Range(Ids(cards[n].options)) : n \in DOMAIN cards } \cup {"zz", ""}

InitStep ==
    /\ catalog \in Catalogs \ { << >> } /\ mt = NoMemo
    /\ st_pc = "call"
    /\ st_op \in {"simulate_step", "apply_decision"}
    /\ st_metrics \in CallMetrics
    \* simulate_step is handed a card; the handler any card identifier
    /\ st_card_id \in Range(Ids(catalog))
                     \cup (IF st_op = "apply_decision" THEN {"unknown"} ELSE {})
    \* chosen_option_id is Optional[str]; the request's optionId is a str
    /\ st_option_id \in { Some(id) : id \in OptionIds(catalog) }
                       \cup (IF st_op = "simulate_step" THEN {<< >>} ELSE {})
    /\ st_result = NoOutcome
    /\ ApplyIdle /\ FilterIdle /\ SelectIdle /\ SimIdle /\ ScoreIdle /\ ConcIdle
    /\ EvalIdle /\ AiIdle /\ ResIdle

SimulateStepCall ==
    /\ st_pc = "call" /\ st_op = "simulate_step"
    /\ \E res \in {SimulateStep(st_metrics, CardOf(st_card_id), st_option_id)} :
          /\ st_result' = res
          /\ st_pc' = IF res.status = "ok" THEN "returned" ELSE "raised"
    /\ UNCHANGED <<catalog, mt, st_op, st_metrics, st_card_id, st_option_id,
                   applyVars, filterVars, selectVars, simVars, scoreVars, concVars,
                   evalVars, aiVars, resVars>>

ApplyDecisionCall ==
    /\ st_pc = "call" /\ st_op = "apply_decision"
    /\ \E res \in {ApplyDecision(catalog, st_card_id, st_option_id[1],
                                  st_metrics)} :
          /\ st_result' = res
          /\ st_pc' = IF res.status = "ok" THEN "returned" ELSE "raised"
    /\ UNCHANGED <<catalog, mt, st_op, st_metrics, st_card_id, st_option_id,
                   applyVars, filterVars, selectVars, simVars, scoreVars, concVars,
                   evalVars, aiVars, resVars>>

NextStep == SimulateStepCall \/ ApplyDecisionCall

SpecStep == InitStep /\ [][NextStep]_vars

\* The call named an option identifier, and no option of its card has it.
NamesNoOption ==
    /\ st_option_id # << >>
    /\ \E card \in Range(catalog) :
          /\ card.id = st_card_id
          /\ \A n \in DOMAIN card.options :
                card.options[n].id # st_option_id[1]

\* The OptionNotFound failure: the ValueError of simulate_step, the 404 of
\* the handler.
OptionNotFound == st_result.status \in {"ValueError", "404 option"}

\* C12: applying an option by identifier fails with OptionNotFound for
\* every optionId that matches no option of the card, the empty string
\* included, and then no new metrics state is produced.
C12_UnknownOptionFails ==
    (st_pc # "call" /\ NamesNoOption) =>
        /\ st_pc = "raised" /\ OptionNotFound
        /\ st_result.new_metrics = << >>

\* C12 for every call but simulate_step with the empty string.
UnknownOptionFailsExceptEmptyStep ==
    (/\ st_pc # "call" /\ NamesNoOption
     /\ ~ (st_op = "simulate_step" /\ st_option_id = Some(""))) =>
        /\ st_pc = "raised" /\ OptionNotFound
        /\ st_result.new_metrics = << >>

\* The handler refuses the empty string.
EmptyOptionRefusedByHandler ==
    /\ st_op = "apply_decision" /\ st_option_id = Some("")
    /\ st_card_id \in Range(Ids(catalog))
    /\ st_pc = "raised" /\ OptionNotFound

----------------------------------------------------------------------------
(* Claims about select_card, under SpecSelect *)

\* The available set of the claims: the catalog cards whose identifier is
\* not in the history, or the whole catalog when there is none.
UnusedCards == SelectSeq(catalog, LAMBDA card : card.id \notin Range(sel_used))
AvailableSet == IF UnusedCards = << >> THEN Range(catalog) ELSE Range(UnusedCards)

SatisfiedSet ==
    { card \in AvailableSet : TriggersSatisfied(sel_metrics, card.triggers) }

\* C4: two calls of select_card with the same (metrics, used_card_ids, seed)
\* end the same way with the same card, rationale and scoring details
\* whenever a seed is given, 0 included.
C4_SeededSelectRepeats ==
    (sel_seed # NoSeed /\ \A r \in Calls : sel_pc[r] # "call") =>
        /\ sel_pc[1] = sel_pc[2]
        /\ sel_res[1] = sel_res[2]

\* Both calls returned under seed 0, from a shortlist whose draw decides
\* the card.
C4_Witness ==
    /\ sel_seed = Some(0)
    /\ \A r \in Calls : sel_pc[r] = "returned"
    /\ sel_res[1].details.candidatesConsidered >= 2
    /\ \E d1, d2 \in 0..(RandSteps - 1) :
          SelectCard(catalog, sel_metrics, sel_used, d1).card
             # SelectCard(catalog, sel_metrics, sel_used, d2).card

\* C5: over a non-empty catalog select_card returns a card of the catalog,
\* for every in-range metrics state and every history, also one that holds
\* every catalog identifier; it never ends without a card.
C5_NonEmptyCatalogGivesCard ==
    \A r \in Calls :
        (catalog # << >> /\ BaseInRange(sel_metrics) /\ sel_pc[r] # "call") =>
            /\ sel_pc[r] = "returned"
            /\ sel_res[r].status = "ok"
            /\ sel_res[r].card \in Range(catalog)

\* A call that returned a card although every catalog card was used.
C5_Witness ==
    /\ catalog # << >>
    /\ Range(Ids(catalog)) \subseteq Range(sel_used)
    /\ sel_pc[1] = "returned"
    /\ sel_res[1].card \in Range(catalog)

\* C9: when some catalog card is not in used_card_ids, the returned card is
\* not in used_card_ids (so a used card comes back only when all are used).
C9_UnusedCardPreferred ==
    \A r \in Calls :
        (/\ sel_pc[r] = "returned"
         /\ \E n \in DOMAIN catalog : catalog[n].id \notin Range(sel_used)) =>
            sel_res[r].card.id \notin Range(sel_used)

\* A call over a catalog with used and unused cards, where the best-scoring
\* card (first in the shortlist of an empty history) is a used one.
C9_Witness ==
    /\ sel_pc[1] = "returned"
    /\ \E n \in DOMAIN catalog : catalog[n].id \notin Range(sel_used)
    /\ SelectCard(catalog, sel_metrics, << >>, 0).card.id \in Range(sel_used)

\* C10: with A the available set, if some card of A satisfies its triggers
\* the returned card satisfies its triggers and the draw is among those
\* cards only; if none does, the draw is among all of A, triggers ignored.
C10_TriggersHonouredUnlessNoneMatch ==
    \A r \in Calls :
        sel_pc[r] = "returned" =>
            IF SatisfiedSet # {}
            THEN /\ sel_res[r].card \in SatisfiedSet
                 /\ sel_res[r].details.totalEligible = Cardinality(SatisfiedSet)
            ELSE /\ sel_res[r].card \in AvailableSet
                 /\ sel_res[r].details.totalEligible = Cardinality(AvailableSet)

\* A call where part of the available set satisfies its triggers and part
\* does not.
C10_Witness ==
    /\ sel_pc[1] = "returned"
    /\ SatisfiedSet # {}
    /\ SatisfiedSet # AvailableSet

\* The other case of C10: no available card satisfies its triggers, and the
\* returned card is one whose triggers fail.
C10_FallbackReached ==
    /\ sel_pc[1] = "returned"
    /\ SatisfiedSet = {}
    /\ ~ TriggersSatisfied(sel_metrics, sel_res[1].card.triggers)

\* The shortlist of the calls and its total weight, in twentieths.
Shortlist ==
    LET scored_cards == SortDesc(ScoredCards(sel_metrics,
                            EligibleCards(sel_metrics,
                                AvailableCards(catalog, sel_used))))
    IN  SubSeq(scored_cards, 1, Min(3, Len(scored_cards)))

RECURSIVE SumOfScores(_)
SumOfScores(scored) ==
    IF scored = << >> THEN 0
    ELSE scored[1].score + SumOfScores(Tail(scored))

\* C18: when the scores of a (non-empty) shortlist sum to 0 or less,
\* select_card does not fail but returns one of the shortlist's cards.
C18_NonPositiveTotalFallsBack ==
    \A r \in Calls :
        (/\ sel_pc[r] # "call"
         /\ Shortlist # << >>
         /\ SumOfScores(Shortlist) <= 0) =>
            /\ sel_pc[r] = "returned"
            /\ \E n \in DOMAIN Shortlist : sel_res[r].card = Shortlist[n].card

\* What select_card does instead: rng.choices raises ValueError exactly
\* when the scores of a non-empty shortlist sum to 0 or less.
NonPositiveTotalRaises ==
    \A r \in Calls :
        (sel_pc[r] # "call" /\ Shortlist # << >>) =>
            IF SumOfScores(Shortlist) <= 0
            THEN sel_pc[r] = "raised" /\ sel_res[r].status = "ValueError"
            ELSE sel_pc[r] = "returned"

\* A call that raised over a shortlist with a card of positive score in it.
NonPositiveTotalReached ==
    /\ sel_pc[1] = "raised"
    /\ Len(Shortlist) >= 2
    /\ Shortlist[1].score > 0
    /\ SumOfScores(Shortlist) < 0

\* The n eligible cards of the calls, in eligibility order, and the score
\* of the k-th.
Eligible == EligibleCards(sel_metrics, AvailableCards(catalog, sel_used))

EligibleScore(k) ==
    ScoreCard(Eligible[k], sel_metrics, CalculateUrgencyScore(sel_metrics)).score

\* How many eligible cards come before the k-th when sorted by descending
\* score with ties in eligibility order.
Rank(k) ==
    Cardinality({ j \in DOMAIN Eligible :
                    \/ EligibleScore(j) > EligibleScore(k)
                    \/ EligibleScore(j) = EligibleScore(k) /\ j < k })

\* C20: the card select_card returns is one of the first min(3, n) of the n
\* eligible cards sorted by descending score, ties in eligibility order;
\* candidatesConsidered is min(3, totalEligible) and totalEligible is n.
C20_ReturnedCardInShortlist ==
    \A r \in Calls :
        sel_pc[r] = "returned" =>
            /\ \E k \in DOMAIN Eligible :
                  /\ sel_res[r].card = Eligible[k]
                  /\ Rank(k) < Min(3, Len(Eligible))
            /\ sel_res[r].details.totalEligible = Len(Eligible)
            /\ sel_res[r].details.candidatesConsidered
                  = Min(3, sel_res[r].details.totalEligible)

\* A call over four eligible cards that returned the third of the
\* shortlist, which an eligible card left out equals in score.
C20_Witness ==
    /\ sel_pc[1] = "returned"
    /\ Len(Eligible) >= 4
    /\ sel_res[1].details.candidatesConsidered = 3
    /\ \E k, j \in DOMAIN Eligible :
          /\ sel_res[1].card = Eligible[k]
          /\ Rank(k) = 2 /\ Rank(j) = 3
          /\ EligibleScore(j) = EligibleScore(k)

----------------------------------------------------------------------------
(* Claims about simulate_full_run, under Spec, FairSpec and SpecRepeat *)

\* C3: two calls of simulate_full_run with the same arguments return the
\* same node sequence whenever a seed is given, for every integer seed
\* (0 and negative seeds included).
C3_SeededRunsRepeat ==
    (seed # NoSeed /\ \A r \in Calls : pc[r] \in {"returned", "raised"}) =>
        /\ pc[1] = pc[2]
        /\ Timeline(1) = Timeline(2)

\* C6: over a non-empty catalog simulate_full_run returns, and returns
\* exactly `steps` nodes, also when steps plus the history exceed the
\* catalog size.
C6_RunReturnsAllSteps ==
    (catalog # << >>) ~> (pc[1] = "returned" /\ Len(nodes[1]) = steps)

\* A run that returned `steps` nodes although the history and the steps
\* together exceed the catalog.
C6_Witness ==
    /\ catalog # << >>
    /\ pc[1] = "returned"
    /\ Len(nodes[1]) = steps
    /\ steps + Len(in_used_card_ids) > Len(catalog)

\* C7: with an empty catalog select_card yields no card instead of failing
\* and simulate_full_run returns the nodes produced so far, the empty
\* sequence, as a normal result.
C7_EmptyCatalogIsNormalEnd ==
    (catalog = << >> /\ pc[1] \notin {"call", "loop"}) =>
        (pc[1] = "returned" /\ nodes[1] = << >>)

\* C3 for the seeds other than 0.
SeededRunsRepeatExceptZero ==
    (seed # NoSeed /\ seed # Some(0)
     /\ \A r \in Calls : pc[r] \in {"returned", "raised"}) =>
        /\ pc[1] = pc[2]
        /\ Timeline(1) = Timeline(2)

----------------------------------------------------------------------------
(* The scenario: three steps over the two-card catalog, under Spec *)

\* The metrics state step k of call r started from.
MetricsBefore(r, k) ==
    IF k = 1 THEN initial_metrics ELSE Timeline(r)[k - 1].metricsAfter

\* option_id names an option of the card that no other option of the card
\* beats on the objective of evaluate_option.
BestByObjective(card, metrics, option_id) ==
    \E n \in DOMAIN card.options :
        /\ card.options[n].id = option_id
        /\ \A m \in DOMAIN card.options :
              EvaluateOption(card.options[m], metrics).score
                 <= EvaluateOption(card.options[n], metrics).score

\* In no step of simulate_full_run do two options of the selected card have
\* the same exact objective, so no rounding error decides a choice there.
OptionsNeverTie ==
    \A r \in Calls : \A k \in DOMAIN nodes[r] :
        LET card == CardOf(nodes[r][k].cardId)
        IN  \A a, b \in DOMAIN card.options :
               a # b =>
                  EvaluateOption(card.options[a], MetricsBefore(r, k)).score
                    # EvaluateOption(card.options[b], MetricsBefore(r, k)).score

\* Call 1 has ended a run of three steps over the two-card catalog, started
\* with an empty history and a seed.
ScenarioEnded ==
    /\ catalog = PairCatalog /\ steps = 3 /\ in_used_card_ids = << >>
    /\ seed # NoSeed
    /\ pc[1] \in {"returned", "raised"}

\* Every node of call 1 carries a best option, by objective, of its card.
EveryNodeHasBestOption ==
    \A k \in DOMAIN nodes[1] :
        BestByObjective(CardOf(nodes[1][k].cardId), MetricsBefore(1, k),
                        nodes[1][k].chosenOptionId)

\* C11 as claimed: in the scenario the first two steps select card A with
\* its best option by objective, and step 3 selects from the full catalog
\* again, so the run returns three nodes.
C11_FirstTwoStepsSelectCardA ==
    ScenarioEnded =>
        /\ pc[1] = "returned" /\ Len(nodes[1]) = 3
        /\ nodes[1][1].cardId = "A" /\ nodes[1][2].cardId = "A"
        /\ nodes[1][3].cardId \in {"A", "B"}
        /\ EveryNodeHasBestOption

\* C11 amended: in the scenario the first two steps select the two cards,
\* one each (the card of step 1 is in the history at step 2), each with its
\* best option by objective; step 3, with both cards in the history, selects
\* from the full catalog again by the reuse rule, and the run returns three
\* nodes.
C11_ScenarioUsesBothCardsThenReuses ==
    ScenarioEnded =>
        /\ pc[1] = "returned" /\ Len(nodes[1]) = 3
        /\ {nodes[1][1].cardId, nodes[1][2].cardId} = {"A", "B"}
        /\ nodes[1][3].cardId \in {"A", "B"}
        /\ EveryNodeHasBestOption

\* The scenario run that selects A, then B, then A again.
C11_Witness ==
    /\ ScenarioEnded /\ pc[1] = "returned"
    /\ Len(nodes[1]) = 3
    /\ [k \in 1..3 |-> nodes[1][k].cardId] = <<"A", "B", "A">>
    /\ heap[1].lists[used_card_ids[1]] = <<"A", "B", "A">>

----------------------------------------------------------------------------
(* Claims about the objects simulate_full_run works on, under Spec *)

\* C14: simulate_full_run never changes the initial_metrics object or the
\* used_card_ids list its caller supplied (they hold their values from
\* before the call after every step of a run of any length), and no step
\* alters the metricsAfter of a node an earlier step produced.
C14_CallerInputsUntouched ==
    [][\A r \in Calls :
          /\ heap'[r].dicts[1] = initial_metrics
          /\ heap'[r].lists[1] = in_used_card_ids
          /\ \A k \in DOMAIN nodes[r] :
                Timeline(r)'[k].metricsAfter = Timeline(r)[k].metricsAfter]_vars

\* A run that returned two or more nodes with differing metricsAfter, from
\* a non-empty history that its own list has outgrown.
C14_Witness ==
    /\ pc[1] = "returned" /\ Len(nodes[1]) >= 2
    /\ in_used_card_ids # << >>
    /\ Len(heap[1].lists[used_card_ids[1]]) = Len(in_used_card_ids) + steps
    /\ Timeline(1)[1].metricsAfter # initial_metrics
    /\ Timeline(1)[2].metricsAfter # Timeline(1)[1].metricsAfter

\* C15: no step of simulate_full_run (its calls of select_card,
\* select_best_option and apply_deltas included) changes the list that
\* load_all_cards caches: the same cards, in the same order, with the same
\* contents, also when the reuse and trigger fallbacks bind the names
\* available_cards and eligible_cards to that list.
C15_CatalogNeverWritten == [][catalog' = catalog]_vars

\* A run that returned nodes although its first step had every card in the
\* history and no card with satisfied triggers: both fallbacks at once, over
\* a catalog that is not in descending score order.
C15_Witness ==
    /\ pc[1] = "returned" /\ Len(nodes[1]) = steps
    /\ EligibleCardsObject(catalog, initial_metrics, in_used_card_ids)
          = "all_cards"
    /\ Len(catalog) >= 2
    /\ ScoreCard(catalog[1], initial_metrics,
                 CalculateUrgencyScore(initial_metrics)).score
          < ScoreCard(catalog[2], initial_metrics,
                      CalculateUrgencyScore(initial_metrics)).score

----------------------------------------------------------------------------
(* The nodes of a run, under Spec *)

\* The cardIds of the nodes of call r.
CardIds(r) == [k \in DOMAIN nodes[r] |-> nodes[r][k].cardId]

\* The working history of call r.
WorkingHistory(r) == heap[r].lists[used_card_ids[r]]

\* C23: node k (0-based) of simulate_full_run has step = start_step + k,
\* the option select_best_option picks for its card on the metrics before
\* the step (initial_metrics, or the metricsAfter of the node before), the
\* metricsAfter apply_deltas gives for those metrics and that option's
\* deltas; and the working history after it is the initial used_card_ids
\* followed by the cardIds of the nodes so far.
C23_NodesChainFromInitialState ==
    pc[1] \in {"loop", "returned", "raised"} =>
        /\ \A k \in DOMAIN nodes[1] :
              LET node == Timeline(1)[k]
                  best == SelectBestOption(CardOf(node.cardId),
                                           MetricsBefore(1, k)).option
              IN  /\ node.step = start_step + (k - 1)
                  /\ node.chosenOptionId = best.id
                  /\ node.metricsAfter
                        = ApplyDeltas(MetricsBefore(1, k), best.deltas)
        /\ WorkingHistory(1) = in_used_card_ids \o CardIds(1)

\* A run of three steps from a non-empty history and start_step 0 whose
\* later nodes took an option that is not the first of its card, on
\* metrics the earlier nodes had changed.
C23_Witness ==
    /\ pc[1] = "returned" /\ Len(nodes[1]) = 3 /\ start_step = 0
    /\ in_used_card_ids # << >>
    /\ nodes[1][3].step = 2
    /\ \E k \in 2..3 :
          /\ nodes[1][k].chosenOptionId
                # CardOf(nodes[1][k].cardId).options[1].id
          /\ MetricsBefore(1, k) # initial_metrics

\* C24: from initial metrics with base dimensions in [0,100], every node's
\* metricsAfter has its five base dimensions in [0,100] and a
\* sustainabilityScore in [0,100] that is the weighted formula on that
\* node's own base dimensions, never the score of an earlier state.
C24_NodesInRangeWithOwnScore ==
    BaseInRange(initial_metrics) =>
        \A k \in DOMAIN nodes[1] :
            LET after == Timeline(1)[k].metricsAfter
            IN  /\ BaseInRange(after)
                /\ after.sustainabilityScore >= 0
                /\ after.sustainabilityScore <= 100 * 100
                /\ after.sustainabilityScore = WeightedScore(after)

\* A run whose nodes carry three different scores, none of them the score
\* the initial metrics came with, and a base dimension held at 100.
C24_Witness ==
    /\ pc[1] = "returned" /\ Len(nodes[1]) = 3
    /\ \A k \in 1..3 :
          Timeline(1)[k].metricsAfter.sustainabilityScore
            # MetricsBefore(1, k).sustainabilityScore
    /\ \E k \in 1..3 : \E d \in BaseKeys :
          /\ Timeline(1)[k].metricsAfter[d] = 100
          /\ MetricsBefore(1, k)[d] < 100

\* The catalog identifiers that are not in the initial history.
UnusedIds == Range(Ids(catalog)) \ Range(in_used_card_ids)

\* C27: the first min(steps, number of catalog cards not in U) nodes of a
\* run have pairwise distinct cardIds, none of them in the initial history
\* U; a card is repeated only after every catalog card is in the working
\* history.
C27_NoRepeatBeforeExhaustion ==
    /\ \A k \in DOMAIN nodes[1] :
          k <= Min(steps, Cardinality(UnusedIds)) =>
             /\ nodes[1][k].cardId \notin Range(in_used_card_ids)
             /\ \A j \in 1..(k - 1) : nodes[1][j].cardId # nodes[1][k].cardId
    /\ \A k \in DOMAIN nodes[1] :
          nodes[1][k].cardId
              \in Range(in_used_card_ids \o SubSeq(CardIds(1), 1, k - 1)) =>
             Range(Ids(catalog))
                \subseteq Range(in_used_card_ids \o SubSeq(CardIds(1), 1, k - 1))

\* A run of three steps over a catalog of two cards: two nodes with
\* different cards, then, with both in the working history, one of them
\* again.
C27_Witness ==
    /\ pc[1] = "returned" /\ Len(nodes[1]) = 3
    /\ Cardinality(UnusedIds) = 2
    /\ nodes[1][1].cardId # nodes[1][2].cardId
    /\ {nodes[1][1].cardId, nodes[1][2].cardId} = UnusedIds
    /\ nodes[1][3].cardId \in UnusedIds

\* A run of three steps from a non-empty history over a catalog with three
\* cards left: three different cards, none from the history.
NoRepeatWithHistoryReached ==
    /\ pc[1] = "returned" /\ Len(nodes[1]) = 3
    /\ in_used_card_ids # << >>
    /\ Cardinality(UnusedIds) = 3
    /\ Range(CardIds(1)) = UnusedIds

\* The metrics state call 1 works on.
WorkingMetrics == heap[1].dicts[current_metrics[1]]

\* The shortlist select_card would draw from in the state call 1 is in.
WorkingShortlist ==
    LET scored_cards ==
            SortDesc(ScoredCards(WorkingMetrics,
                EligibleCards(WorkingMetrics,
                    AvailableCards(catalog, WorkingHistory(1)))))
    IN  SubSeq(scored_cards, 1, Min(3, Len(scored_cards)))

\* C28: in every state simulate_full_run reaches from in-range initial
\* metrics, score_card gives every card a score of at least 10, so the
\* weights of the shortlist of select_card are all above 0 and so is their
\* total.
C28_WeightsPositive ==
    (BaseInRange(initial_metrics) /\ pc[1] \in {"loop", "returned"}) =>
        /\ \A n \in DOMAIN catalog :
              ScoreCard(catalog[n], WorkingMetrics,
                        CalculateUrgencyScore(WorkingMetrics)).score >= 10 * 20
        /\ \A n \in DOMAIN WorkingShortlist : WorkingShortlist[n].score > 0
        /\ WorkingShortlist # << >> => SumOfScores(WorkingShortlist) > 0

\* A state after two steps where the shortlist has two or more cards and
\* a card scores exactly 10.
C28_Witness ==
    /\ pc[1] = "loop" /\ Len(nodes[1]) = 2
    /\ Len(WorkingShortlist) >= 2
    /\ \E n \in DOMAIN catalog :
          ScoreCard(catalog[n], WorkingMetrics,
                    CalculateUrgencyScore(WorkingMetrics)).score = 10 * 20

====
